---- MODULE Spec2Model ----
(***************************************************************************)
(* A model of the personalization and cache-management core of the news    *)
(* backend: the key/value store (Redis) as one function from keys to       *)
(* values, the personalized feed and personalized search handlers of       *)
(* src/src/services/redisService.js as step machines that suspend at      *)
(* their awaits, the read history, the preference update, and the admin    *)
(* clear operations of cacheClearService.js / clearAllCache.js /           *)
(* clearCache.js.  Spec is the server under client requests; SpecAdmin is  *)
(* the store under the writers and the admin scripts; SpecView is the      *)
(* article view of newsController.js with its un-awaited background        *)
(* tasks; SpecSimilar is findSimilarArticles with its strategies, fusion   *)
(* and cache; SpecLru is the similar cache starting from a full LRU set.   *)
(*                                                                         *)
(* A key "user:u1:read:a2" is the sequence of its ':'-separated segments,  *)
(* <<"user","u1","read","a2">>, so that KEYS patterns are matched by what  *)
(* the glob does and not by a namespace tag.                               *)
(*                                                                         *)
(* redisService.js declares updateUserPreferences twice (226, 851) and     *)
(* clearPersonalizedCache twice (768, 940).  They are function             *)
(* declarations of one CommonJS module scope, so the later declaration     *)
(* of each is the binding every caller (and module.exports) sees; the      *)
(* model follows the later ones.                                           *)
(***************************************************************************)
EXTENDS Integers, Sequences, FiniteSets, TLC

VARIABLES
    store,      \* the Redis keyspace: present key -> value
    req,        \* the in-flight personalized feed / search request
    resp,       \* the response produced by the last step, NoResp otherwise
    fresh,      \* users whose preference update returned, with no request
                \* in flight, and who have not started a feed request since
                \* (history variable)
    prefsBy,    \* per user, the call that wrote the stored preferences
                \* (history variable)
    ops,        \* client operations begun and errors met so far
    cli,        \* the admin operation in progress (a CLI script, or the
                \* similar-cache invalidation of the admin API): its position
                \* and what it was given
    view,       \* the article view handler: its position and the background
                \* tasks it left running
    now         \* the clock of the store, in seconds

vars == <<store, req, resp, fresh, prefsBy, ops, cli, view, now>>

----------------------------------------------------------------------------
(* Bounds of the model *)

\* client operations (requests, preference writes, views), expiries and
\* errors in one behaviour
MaxOps == 5
\* of which metric updates and runs of the admin scripts, with their errors
MaxAdminOps == 4
\* the same for the similar-articles runs
MaxSimOps == 4
\* the requests of a run that starts from a full similar-articles cache
MaxLruOps == 2
\* the clock advances by Hour seconds at a time, up to MaxClock
Hour == 3600
MaxClock == 14400

(* Program constants *)
ReadTtl == 7200
PrefThreshold == 40          \* similarity threshold 0.4, in percent
GeneralAddend == 10          \* top up when fewer than limit + offset + 10
NeededAddend == 15           \* needed = limit + offset + 15 - have
SearchAddend == 20           \* vector search asks for limit + offset + 20
NoPrefsAddend == 20          \* no-preferences fallback asks for limit + offset + 20
ErrorAddend == 10            \* error fallback asks for limit + offset + 10
PersonalizedLimit == 100     \* Math.max(100, limit * 8) for limit <= 12
SearchBuffer == 20           \* personalizedLimit + 20
RefreshTenths == 3           \* filteredCount > limit * 0.3

Users == {"u1"}
Articles == {"a1", "a2"}
Queries == {"ai"}

\* the preference lists a client can PUT or POST (already cleaned)
PrefLists == {<<"sports">>, <<"tech", "sports">>}

\* articles by publishedAt, newest first
Newest == <<"a2", "a1">>

\* cosine similarity of embed(text) to the article's vector, in percent; the
\* text is a preference or the joined keywords of an article (kw1 of a1, ...)
Similarity(pref, a) ==
    CASE pref = "tech" /\ a = "a1" -> 90
      [] pref = "tech" /\ a = "a2" -> 45
      [] pref = "tech" /\ a = "a3" -> 10
      [] pref = "sports" /\ a = "a1" -> 20
      [] pref = "sports" /\ a = "a2" -> 80
      [] pref = "sports" /\ a = "a3" -> 60
      [] pref = "kw1" /\ a = "a1" -> 100
      [] pref = "kw1" /\ a = "a2" -> 80
      [] pref = "kw1" /\ a = "a3" -> 60
      [] pref = "kw2" /\ a = "a1" -> 80
      [] pref = "kw2" /\ a = "a2" -> 100
      [] pref = "kw2" /\ a = "a3" -> 40
      [] pref = "kw3" /\ a = "a1" -> 60
      [] pref = "kw3" /\ a = "a2" -> 40
      [] pref = "kw3" /\ a = "a3" -> 100
      [] OTHER -> 0

\* the articles whose text matches the words of a search query
QueryMatches(q) == IF q = "ai" THEN {"a1", "a2"} ELSE {}

----------------------------------------------------------------------------
(* Sequences *)

Take(s, n) == IF n >= Len(s) THEN s ELSE IF n <= 0 THEN <<>> ELSE SubSeq(s, 1, n)

\* Array.prototype.slice(from, to)
Slice(s, from, to) ==
    IF from >= Len(s) THEN <<>>
    ELSE SubSeq(s, from + 1, IF to > Len(s) THEN Len(s) ELSE to)

Range(s) == {s[i] : i \in 1..Len(s)}

RECURSIVE SelectIds(_, _)
\* the elements of a sequence of article ids that are in set keep, in order
SelectIds(s, keep) ==
    IF s = <<>> THEN <<>>
    ELSE IF Head(s) \in keep THEN <<Head(s)>> \o SelectIds(Tail(s), keep)
         ELSE SelectIds(Tail(s), keep)

RECURSIVE SelectRecs(_, _)
\* the result records whose id is in set keep, in order
SelectRecs(s, keep) ==
    IF s = <<>> THEN <<>>
    ELSE IF Head(s).id \in keep THEN <<Head(s)>> \o SelectRecs(Tail(s), keep)
         ELSE SelectRecs(Tail(s), keep)

RECURSIVE InsertDesc(_, _)
\* insert record r after every record whose score is >= r.score
InsertDesc(sorted, r) ==
    IF sorted = <<>> THEN <<r>>
    ELSE IF Head(sorted).score >= r.score
         THEN <<Head(sorted)>> \o InsertDesc(Tail(sorted), r)
         ELSE <<r>> \o sorted

RECURSIVE SortDesc(_)
\* Array.prototype.sort((a, b) => b.score - a.score): stable, descending
SortDesc(s) ==
    IF s = <<>> THEN <<>>
    ELSE InsertDesc(SortDesc(SubSeq(s, 1, Len(s) - 1)), s[Len(s)])

Ids(recs) == [i \in 1..Len(recs) |-> recs[i].id]

----------------------------------------------------------------------------
(* Keys and KEYS patterns *)

\* decimal rendering of the numbers that appear in keys
Str(n) ==
    CASE n = 0 -> "0" [] n = 1 -> "1" [] n = 2 -> "2" [] n = 3 -> "3"
      [] n = 4 -> "4" [] n = 10 -> "10" [] n = 120 -> "120" [] OTHER -> ToString(n)

RECURSIVE GlobMatch(_, _)
\* Redis glob over ':'-separated segments: a "*" segment of the pattern
\* matches one or more whole segments of the key (in a key, '*' also
\* crosses ':'), any other segment matches itself.
GlobMatch(pat, key) ==
    IF pat = <<>> THEN key = <<>>
    ELSE IF key = <<>> THEN FALSE
    ELSE IF Head(pat) = "*"
         THEN \/ GlobMatch(Tail(pat), Tail(key))
              \/ GlobMatch(pat, Tail(key))
         ELSE Head(pat) = Head(key) /\ GlobMatch(Tail(pat), Tail(key))

\* redis.keys(pattern)
KeysMatching(st, pat) == {k \in DOMAIN st : GlobMatch(pat, k)}

\* redis.del(keys)
Del(st, keys) == [k \in DOMAIN st \ keys |-> st[k]]

\* redis.set / json.set of one key
Put(st, key, val) == [k \in DOMAIN st \cup {key} |-> IF k = key THEN val ELSE st[k]]

Has(st, key) == key \in DOMAIN st

newsKey(a) == <<"news", a>>
prefsKey(u) == <<"user", u, "preferences">>
readKey(u, a) == <<"user", u, "read", a>>
readSetKey(u) == <<"user", u, "read_set">>
feedCacheKey(u, limit, offset) == <<"personalized_simple", u, Str(limit), Str(offset)>>
prefsVersionKey(u) == <<"prefs_version_simple", u>>
feedStatsKey(u) == <<"personalized_stats_simple", u>>
searchCacheKey(u, h, limit, offset) ==
    <<"personalized_search_simple", u, h, Str(limit), Str(offset)>>
searchStatsKey(u) == <<"personalized_search_stats_simple", u>>

\* the RediSearch index idx:news.  It is not a key of the keyspace: no KEYS
\* pattern of the program reaches this entry.
indexKey == <<"FT.INDEX", "idx:news">>

\* md5(JSON.stringify(preferences)): injective on the lists in use
md5json(prefs) == [md5 |-> prefs]
\* the literal 'none' compared when the user has no preference document
NoneHash == [md5 |-> <<"none">>]

\* md5(JSON.stringify({q, sentiment: '', source: ''}))
searchHash(q) == IF q = "ai" THEN "md5_q_ai" ELSE "md5_q_other"

----------------------------------------------------------------------------
(* Reads of the store *)

\* the article ids with a stored document, newest first (FT.SEARCH * SORTBY
\* publishedAt DESC over the index of the news: prefix)
Corpus(st) == SelectIds(Newest, {a \in Articles : Has(st, newsKey(a))})

\* getAllArticles(limit, offset).articles.  Its own 300 s result cache
\* (all_articles:limit:offset) returns what the search returns while the
\* corpus does not change, as here; the cache key is not modelled.
getAllArticles(st, limit, offset) == Slice(Corpus(st), offset, offset + limit)

\* getUserPreferences(userId)?.preferences, <<>> when there is no document
getUserPreferences(st, u) == IF Has(st, prefsKey(u)) THEN st[prefsKey(u)] ELSE <<>>

\* the sorted set user:{u}:read_set: the score of each member
readScores(st, u) ==
    IF Has(st, readSetKey(u)) THEN st[readSetKey(u)].scores ELSE [m \in {} |-> 0]

\* ZADD with NX: the score of a present member is kept
zAdd_nx(scores, member, score) ==
    [m \in DOMAIN scores \cup {member} |->
        IF m \in DOMAIN scores THEN scores[m] ELSE score]

\* ZADD key score member: the member is added, or its score replaced
zAdd(scores, member, score) ==
    [m \in DOMAIN scores \cup {member} |-> IF m = member THEN score ELSE scores[m]]

\* getUserReadArticles(userId): ZRANGE read_set 0 -1
getUserReadArticles(st, u) == DOMAIN readScores(st, u)

filterReadArticles_none(readIds, recs) == recs

\* filterReadArticles, given the read ids it fetched
filterReadArticles(readIds, recs) ==
    SelectRecs(recs, {recs[i].id : i \in 1..Len(recs)} \ readIds)

\* a general (not preference-matched) article as a result record;
\* scores are in thousandths, final_score 0.1 is 100
generalRec(a) == [id |-> a, mp |-> "general", score |-> 100]

generalRecs(ids) == [i \in 1..Len(ids) |-> generalRec(ids[i])]

RECURSIVE knnRecs(_, _, _)
\* the KNN candidates of one preference as records, nearest first
knnRecs(st, pref, left) ==
    IF left = {} THEN <<>>
    ELSE LET best == CHOOSE a \in left :
                        \A b \in left : Similarity(pref, a) >= Similarity(pref, b)
         IN  <<[id |-> best, mp |-> pref, score |-> Similarity(pref, best)]>>
                 \o knnRecs(st, pref, left \ {best})

\* vectorSearchSimilarNews(searchText, limit, threshold): 2*limit nearest,
\* those with similarity >= threshold, best first, at most limit
vectorSearchSimilarNews(st, pref, limit, threshold) ==
    LET cands == Take(knnRecs(st, pref, Range(Corpus(st))), 2 * limit)
        kept  == SelectRecs(cands,
                     {cands[i].id : i \in {j \in 1..Len(cands) : cands[j].score >= threshold}})
    IN  Take(SortDesc(kept), limit)

RECURSIVE collectPrefs(_, _, _, _, _, _)
\* the loop over the preferences (lines 404-438): preference i contributes
\* its unseen articles with final_score = similarity * (1 - 0.1 * i), in
\* tenths of a percent; a preference whose search threw contributes nothing
collectPrefs(st, prefs, i, failed, want, acc) ==
    IF i > Len(prefs) THEN acc
    ELSE LET found  == IF i \in failed THEN <<>>
                       ELSE vectorSearchSimilarNews(st, prefs[i], want, PrefThreshold)
             seen   == {acc[k].id : k \in 1..Len(acc)}
             unseen == SelectRecs(found, {found[k].id : k \in 1..Len(found)} \ seen)
             w      == 10 - (i - 1)
             scored == [k \in 1..Len(unseen) |->
                           [id |-> unseen[k].id, mp |-> prefs[i],
                            score |-> unseen[k].score * w]]
         IN  collectPrefs(st, prefs, i + 1, failed, want, acc \o scored)

----------------------------------------------------------------------------
(* The request in flight and the response *)

NoResp == [kind |-> "none"]

IdleReq == [pc |-> "idle"]

\* a call of getPersonalizedNews(u, limit, offset); kind "search" marks the
\* call getPersonalizedNewsSearch makes (line 610), whose caller continues
\* with the result, q / slimit / soffset being the search's own arguments;
\* kind "background" marks the call an article view leaves running, whose
\* result nobody reads
NewReq(kind, u, limit, offset, q, slimit, soffset) ==
    [pc |-> "probe", kind |-> kind, user |-> u, limit |-> limit, offset |-> offset,
     q |-> q, slimit |-> slimit, soffset |-> soffset,
     prefs |-> <<>>, all |-> <<>>, sorted |-> <<>>, general |-> <<>>,
     hit |-> <<>>, removed |-> 0, viewed |-> {},
     under |-> <<>>, first |-> FALSE, raced |-> FALSE, afterView |-> FALSE,
     failedAt |-> "none", computed |-> <<>>, inner |-> NoResp, entry |-> <<>>]

\* the object getPersonalizedNews returns: recsP ++ recsG sliced.  History:
\* under is the preference list the served results were computed from, first
\* marks the first feed request begun after a preference update returned,
\* raced a preference write while the request was in flight, viewed the
\* articles marked read while the request was in flight, afterView that the
\* request began after an article view of the user and all the work it left
\* running had ended, path the step that produced the result, failedAt the
\* step whose await rejected into the catch of line 521, computed the page
\* the request had built when its cache write rejected, entry the history
\* of the cache entry a hit was served from.
FeedResult(r, recsP, recsG, cached, fallback) ==
    LET page == Slice(Ids(recsP \o recsG), r.offset, r.offset + r.limit)
    IN  [kind |-> "feed", user |-> r.user, limit |-> r.limit, offset |-> r.offset,
         articles |-> page,
         cached |-> cached, fallback |-> fallback,
         filteredReadCount |-> r.removed,
         viewed |-> r.viewed,
         under |-> r.under, first |-> r.first, raced |-> r.raced,
         afterView |-> r.afterView,
         path |-> r.pc, failedAt |-> r.failedAt, computed |-> r.computed,
         entry |-> r.entry]

\* what the state holds after getPersonalizedNews returned result: the HTTP
\* response of a feed request, or the continuation of the search that
\* called it
Return(r, result) ==
    IF r.kind = "feed"
    THEN /\ req' = IdleReq
         /\ resp' = result
    ELSE IF r.kind = "background"
    THEN /\ req' = IdleReq
         /\ resp' = NoResp
    ELSE /\ req' = [r EXCEPT !.pc = "search_filter", !.inner = result]
         /\ resp' = NoResp

----------------------------------------------------------------------------
(* getPersonalizedNews, redisService.js 312-546 *)

\* lines 326-347: the cache probe.  The payload and the version key are read,
\* then the preferences; a payload whose stored version equals the hash of
\* the current preferences is a hit and goes through the read-history
\* filter; the 0.3 * limit refresh test of lines 345-347 is commented out.
Probe(r) ==
    LET ck      == feedCacheKey(r.user, r.limit, r.offset)
        vk      == prefsVersionKey(r.user)
        current == IF Has(store, prefsKey(r.user))
                   THEN md5json(getUserPreferences(store, r.user)) ELSE NoneHash
        valid   == Has(store, ck) /\ Has(store, vk) /\ store[vk] = current
        readIds == getUserReadArticles(store, r.user)
        kept    == filterReadArticles(readIds, store[ck].results)
    IN  /\ UNCHANGED store
        /\ resp' = NoResp
        /\ \/ /\ valid
              /\ req' = [r EXCEPT !.pc = "hit_respond", !.hit = kept,
                                  !.removed = Len(store[ck].results) - Len(kept),
                                  !.under = store[ck].under,
                                  !.entry = [missPage |-> store[ck].missPage,
                                             read |-> store[ck].read,
                                             viewed |-> store[ck].viewed]]
           \/ /\ ~valid
              /\ req' = [r EXCEPT !.pc = "miss"]

\* an article view of a user has returned and the three tasks it left
\* running (newsController.js 136-142) have ended
ViewDone ==
    /\ view.pc = "tasks"
    /\ view.pending = {}
    /\ ~(req.pc # "idle" /\ req.kind = "background")

\* the page sizes clients request of the feed and of the search
Limits == {1, 2}
SearchLimits == {1}

\* GET /api/user/:userId/personalized-news begins
FeedProbe(u, limit) ==
    /\ req.pc = "idle"
    /\ ops < MaxOps
    /\ ops' = ops + 1
    /\ Probe([NewReq("feed", u, limit, 0, "", 0, 0)
                 EXCEPT !.first = u \in fresh,
                        !.afterView = ViewDone /\ view.user = u])
    /\ fresh' = fresh \ {u}
    /\ UNCHANGED <<prefsBy, cli, view, now>>

\* lines 348-366: count the hit and return the filtered slice
FeedHitRespond ==
    /\ req.pc = "hit_respond"
    /\ store' = Put(store, feedStatsKey(req.user), "stats")
    /\ Return(req, FeedResult(req, req.hit, <<>>, TRUE, FALSE))
    /\ UNCHANGED <<fresh, prefsBy, ops, cli, view, now>>

\* lines 370-372: an error inside the cache check is logged and the request
\* goes on as a miss
FeedHitFails ==
    /\ req.pc = "hit_respond"
    /\ req' = [req EXCEPT !.pc = "miss", !.hit = <<>>, !.removed = 0,
                          !.under = <<>>, !.entry = <<>>]
    /\ resp' = NoResp
    /\ UNCHANGED <<store, fresh, prefsBy, cli, view, now>>
    /\ ops < MaxOps
    /\ ops' = ops + 1

\* lines 376-397: count the miss and load the preferences
FeedMissLoad ==
    /\ req.pc = "miss"
    /\ store' = Put(store, feedStatsKey(req.user), "stats")
    /\ LET prefs == getUserPreferences(store, req.user)
       IN  req' = [req EXCEPT !.pc = IF prefs = <<>> THEN "noprefs" ELSE "search",
                              !.prefs = prefs, !.under = prefs, !.raced = FALSE]
    /\ resp' = NoResp
    /\ UNCHANGED <<fresh, prefsBy, ops, cli, view, now>>

\* lines 382-394: no preferences: the newest articles, read-filtered
FeedNoPrefs ==
    /\ req.pc = "noprefs"
    /\ LET general == generalRecs(getAllArticles(store,
                          req.limit + req.offset + NoPrefsAddend, 0))
           readIds == getUserReadArticles(store, req.user)
           kept    == filterReadArticles(readIds, general)
           r       == [req EXCEPT !.removed = Len(general) - Len(kept)]
       IN  Return(r, FeedResult(r, <<>>, kept, FALSE, TRUE))
    /\ UNCHANGED <<store, fresh, prefsBy, ops, cli, view, now>>

\* lines 399-446: one vector search per preference, the merge, the sort by
\* final score and the first read-history filter
FeedSearch ==
    /\ req.pc = "search"
    /\ LET want    == req.limit + req.offset + SearchAddend
           all     == SortDesc(collectPrefs(store, req.prefs, 1, {}, want, <<>>))
           readIds == getUserReadArticles(store, req.user)
           kept    == filterReadArticles(readIds, all)
       IN  req' = [req EXCEPT !.pc = "topup", !.all = all, !.sorted = kept,
                              !.removed = Len(all) - Len(kept)]
    /\ resp' = NoResp
    /\ UNCHANGED <<store, fresh, prefsBy, ops, cli, view, now>>

\* lines 448-478: top up with general articles, read-filtered again
FeedTopUp ==
    /\ req.pc = "topup"
    /\ LET have    == Len(req.sorted)
           needed  == (req.limit + req.offset + NeededAddend) - have
           fetched == generalRecs(getAllArticles(store, needed * 2, 0))
           fresh0  == SelectRecs(fetched, Range(Ids(fetched)) \ Range(Ids(req.sorted)))
           readIds == getUserReadArticles(store, req.user)
           kept    == Take(filterReadArticles(readIds, fresh0), needed)
       IN  IF have < req.limit + req.offset + GeneralAddend
           THEN req' = [req EXCEPT !.pc = "writeback", !.general = kept]
           ELSE req' = [req EXCEPT !.pc = "writeback"]
    /\ resp' = NoResp
    /\ UNCHANGED <<store, fresh, prefsBy, ops, cli, view, now>>

\* lines 482-519: MULTI { JSON.SET payload; EXPIRE; SET version } EXEC, then
\* return.  The payload is allResults, the list before read filtering and
\* without the general top-up.  History in the entry: under, the
\* preferences it was computed from; missPage, the page this request
\* returns; read, the read list of the user at this point; viewed, the
\* articles marked read while the request ran.
FeedWriteBack ==
    /\ req.pc = "writeback"
    /\ store' = Put(Put(store, feedCacheKey(req.user, req.limit, req.offset),
                        [results |-> req.all, under |-> req.prefs,
                         missPage |-> FeedResult(req, req.sorted, req.general,
                                                 FALSE, FALSE).articles,
                         read |-> getUserReadArticles(store, req.user),
                         viewed |-> req.viewed]),
                    prefsVersionKey(req.user), md5json(req.prefs))
    /\ Return(req, FeedResult(req, req.sorted, req.general, FALSE, FALSE))
    /\ view' = [view EXCEPT !.before = @ \ {feedCacheKey(req.user, req.limit, req.offset)}]
    /\ UNCHANGED <<fresh, prefsBy, ops, cli, now>>

\* an await of lines 376-497 rejects (a store or embedding error that is not
\* caught locally): control passes to the catch of line 521
FeedFails ==
    /\ req.pc \in {"miss", "noprefs", "search", "writeback"}
    /\ req' = [req EXCEPT !.pc = "error", !.sorted = <<>>, !.general = <<>>,
                          !.all = <<>>, !.removed = 0, !.under = <<>>,
                          !.failedAt = req.pc,
                          !.computed = IF req.pc = "writeback"
                                       THEN FeedResult(req, req.sorted, req.general,
                                                       FALSE, FALSE).articles
                                       ELSE <<>>]
    /\ resp' = NoResp
    /\ UNCHANGED <<store, fresh, prefsBy, cli, view, now>>
    /\ ops < MaxOps
    /\ ops' = ops + 1

\* the error fallback without its read-history filter
FeedErrorFallback_unfiltered ==
    /\ req.pc = "error"
    /\ LET general == generalRecs(getAllArticles(store,
                          req.limit + req.offset + ErrorAddend, 0))
       IN  Return(req, FeedResult(req, <<>>, general, FALSE, TRUE))
    /\ UNCHANGED <<store, fresh, prefsBy, ops, cli, view, now>>

\* lines 521-536: the error fallback: the newest articles, read-filtered
FeedErrorFallback ==
    /\ req.pc = "error"
    /\ LET general == generalRecs(getAllArticles(store,
                          req.limit + req.offset + ErrorAddend, 0))
           readIds == getUserReadArticles(store, req.user)
           kept    == filterReadArticles(readIds, general)
           r       == [req EXCEPT !.removed = Len(general) - Len(kept)]
       IN  Return(r, FeedResult(r, <<>>, kept, FALSE, TRUE))
    /\ UNCHANGED <<store, fresh, prefsBy, ops, cli, view, now>>

\* lines 537-544: the fallback failed too: an empty list
FeedErrorEmpty ==
    /\ req.pc = "error"
    /\ Return(req, FeedResult([req EXCEPT !.pc = "fallback_error"], <<>>, <<>>,
                              FALSE, FALSE))
    /\ UNCHANGED <<store, fresh, prefsBy, cli, view, now>>
    /\ ops < MaxOps
    /\ ops' = ops + 1

\* lines 475-477: the top-up failed; the feed goes on without it
FeedTopUpFails ==
    /\ req.pc = "topup"
    /\ req' = [req EXCEPT !.pc = "writeback"]
    /\ resp' = NoResp
    /\ UNCHANGED <<store, fresh, prefsBy, cli, view, now>>
    /\ ops < MaxOps
    /\ ops' = ops + 1

----------------------------------------------------------------------------
(* getPersonalizedNewsSearch, redisService.js 549-765 *)

SearchResult(r, ids, cached, removed, viewed, under, raced) ==
    [kind |-> "search", user |-> r.user, limit |-> r.slimit, offset |-> r.soffset,
     articles |-> Slice(ids, r.soffset, r.soffset + r.slimit),
     cached |-> cached, filteredReadCount |-> removed,
     viewed |-> viewed, under |-> under, raced |-> raced]

\* lines 564-615: the cache probe of GET .../personalized-news/search.  A
\* cached payload is served unless the read-history filter removes more than
\* 0.3 * limit of it; no preference version is consulted.  Otherwise the
\* miss is counted and getPersonalizedNews(userId, personalizedLimit + 20, 0)
\* is called.
SearchProbe(u, q, limit) ==
    /\ req.pc = "idle"
    /\ ops < MaxOps
    /\ ops' = ops + 1
    /\ LET sk      == searchCacheKey(u, searchHash(q), limit, 0)
           r       == NewReq("search", u, PersonalizedLimit + SearchBuffer, 0, q, limit, 0)
           readIds == getUserReadArticles(store, u)
           cachedR == store[sk].results
           kept    == SelectIds(cachedR, Range(cachedR) \ readIds)
           removed == Len(cachedR) - Len(kept)
       IN  IF Has(store, sk) /\ ~(removed * 10 > limit * RefreshTenths)
           THEN /\ req' = [r EXCEPT !.pc = "search_hit", !.hit = kept,
                                    !.removed = removed, !.under = store[sk].under]
                /\ UNCHANGED store
           ELSE /\ req' = r
                /\ store' = Put(store, searchStatsKey(u), "stats")
    /\ resp' = NoResp
    /\ UNCHANGED <<fresh, prefsBy, cli, view, now>>

\* lines 577-597: count the hit and return the filtered slice
SearchHitRespond ==
    /\ req.pc = "search_hit"
    /\ store' = Put(store, searchStatsKey(req.user), "stats")
    /\ resp' = SearchResult(req, req.hit, TRUE, req.removed, req.viewed,
                            req.under, req.raced)
    /\ req' = IdleReq
    /\ UNCHANGED <<fresh, prefsBy, ops, cli, view, now>>

\* line 610: the probe of the getPersonalizedNews call the search makes
SearchFeedProbe ==
    /\ req.pc = "probe"
    /\ Probe(req)
    /\ UNCHANGED <<fresh, prefsBy, ops, cli, view, now>>

\* lines 617-738: keep the personalized articles that match the query, cache
\* them for the search key and return the slice.  cacheOk is FALSE when the
\* cache write fails, which lines 715-717 log and swallow.
SearchFinish(cacheOk) ==
    /\ req.pc = "search_filter"
    /\ LET inner   == req.inner
           matched == SelectIds(inner.articles, QueryMatches(req.q))
           sk      == searchCacheKey(req.user, searchHash(req.q), req.slimit, req.soffset)
       IN  /\ store' = IF cacheOk
                       THEN Put(store, sk, [results |-> matched, under |-> inner.under])
                       ELSE store
           /\ resp' = SearchResult(req, matched, FALSE, inner.filteredReadCount,
                                   req.viewed, inner.under, inner.raced)
    /\ req' = IdleReq
    /\ UNCHANGED <<fresh, prefsBy, cli, view, now>>
    /\ IF cacheOk THEN ops' = ops ELSE ops < MaxOps /\ ops' = ops + 1

----------------------------------------------------------------------------
(* Preferences and read history *)

\* a preference write for u while a request of u is in flight
Raced(u) == IF req.pc # "idle" /\ req.user = u THEN [req EXCEPT !.raced = TRUE] ELSE req

\* storeUserPreferences (208-216), POST /api/user/:userId/preferences
storeUserPreferences(u, prefs) ==
    /\ ops < MaxOps
    /\ ops' = ops + 1
    /\ store' = Put(store, prefsKey(u), prefs)
    /\ prefsBy' = [prefsBy EXCEPT ![u] = "store"]
    /\ req' = Raced(u)
    /\ resp' = [kind |-> "store", user |-> u]
    /\ UNCHANGED <<fresh, cli, view, now>>

\* the patterns clearPersonalizedCache(userId) deletes (946-954, with the
\* default clearFallbacks = true)
clearPersonalizedPatterns(u) ==
    {<<"personalized", u, "*">>, <<"personalized_meta", u>>, <<"prefs_version", u>>,
     <<"fallback", u, "*">>, <<"personalized_fallback", u>>}

\* clearPersonalizedCache(userId) (940-980): KEYS and DEL per pattern, then
\* ZREM of the LRU members that contain the user id
clearPersonalizedCache(st, u) ==
    LET gone == UNION {KeysMatching(st, pat) : pat \in clearPersonalizedPatterns(u)}
        st1  == Del(st, gone)
        lru  == <<"personalized_cache_lru">>
    IN  IF Has(st1, lru)
        THEN LET left == {m \in st1[lru] : u \notin Range(m)}
             IN  IF left = {} THEN Del(st1, {lru}) ELSE Put(st1, lru, left)
        ELSE st1

\* the personalization keys of user u: feed payloads, search payloads and
\* the preference-version key
personalizationKeys(st, u) ==
    KeysMatching(st, <<"personalized_simple", u, "*">>)
        \cup KeysMatching(st, <<"personalized_search_simple", u, "*">>)
        \cup KeysMatching(st, prefsVersionKey(u))

\* updateUserPreferences (851-873), PUT /api/user/:userId/preferences
updateUserPreferences(u, prefs) ==
    /\ ops < MaxOps
    /\ ops' = ops + 1
    /\ store' = clearPersonalizedCache(Put(store, prefsKey(u), prefs), u)
    /\ prefsBy' = [prefsBy EXCEPT ![u] = "update"]
    /\ fresh' = IF req.pc = "idle" THEN fresh \cup {u} ELSE fresh \ {u}
    /\ req' = Raced(u)
    /\ resp' = [kind |-> "update", user |-> u, before |-> personalizationKeys(store, u)]
    /\ UNCHANGED <<cli, view, now>>

\* markArticleAsRead (242-252): SETEX user:u:read:a 7200, ZADD and EXPIRE
\* 7200 of user:u:read_set; exp is the time at which the store drops the key
marked(st, u, a) ==
    Put(Put(st, readKey(u, a), [ts |-> now, exp |-> now + ReadTtl]),
        readSetKey(u),
        [scores |-> zAdd(readScores(st, u), a, now), exp |-> now + ReadTtl])

\* a call of markArticleAsRead on its own
markArticleAsRead(u, a) ==
    /\ ops < MaxOps
    /\ ops' = ops + 1
    /\ store' = marked(store, u, a)
    /\ req' = IF req.pc # "idle" /\ req.user = u
               THEN [req EXCEPT !.viewed = @ \cup {a}] ELSE req
    /\ resp' = [kind |-> "read", user |-> u, article |-> a]
    /\ UNCHANGED <<fresh, prefsBy, cli, view, now>>

\* the keys written with a time to live
Volatile(k) ==
    \/ Head(k) \in {"personalized_simple", "personalized_search_simple",
                    "prefs_version_simple"}
    \/ Head(k) = "user" /\ Len(k) >= 3 /\ k[3] \in {"read", "read_set"}

\* a key reaches its time to live
Expire(k) ==
    /\ Has(store, k)
    /\ Volatile(k)
    /\ ops < MaxOps
    /\ ops' = ops + 1
    /\ store' = Del(store, {k})
    /\ resp' = NoResp
    /\ UNCHANGED <<req, fresh, prefsBy, cli, view, now>>

\* the keys of the read history, whose values carry their time to live
Timed(k) == Head(k) = "user" /\ Len(k) >= 3 /\ k[3] \in {"read", "read_set"}

\* an hour passes: the store drops the read-history keys whose time to live
\* (242-252) has run out
Tick ==
    /\ now + Hour <= MaxClock
    /\ now' = now + Hour
    /\ store' = Del(store, {k \in DOMAIN store : Timed(k) /\ store[k].exp <= now + Hour})
    /\ resp' = NoResp
    /\ UNCHANGED <<req, fresh, prefsBy, ops, cli, view>>

----------------------------------------------------------------------------
NoCli == [pc |-> "off"]

\* no article view is being handled; before is history: the feed cache keys
\* of the viewing user written before the last view and not rewritten since
NoView == [pc |-> "off", before |-> {}]

Init ==
    /\ store = [k \in {newsKey(a) : a \in Articles} \cup {indexKey} |-> "doc"]
    /\ req = IdleReq
    /\ resp = NoResp
    /\ fresh = {}
    /\ prefsBy = [u \in Users |-> "none"]
    /\ ops = 0
    /\ cli = NoCli
    /\ view = NoView
    /\ now = 0

Next ==
    \/ \E u \in Users, limit \in Limits : FeedProbe(u, limit)
    \/ FeedHitRespond
    \/ FeedHitFails
    \/ FeedMissLoad
    \/ FeedNoPrefs
    \/ FeedSearch
    \/ FeedTopUp
    \/ FeedTopUpFails
    \/ FeedWriteBack
    \/ FeedFails
    \/ FeedErrorFallback
    \/ FeedErrorEmpty
    \/ \E u \in Users, q \in Queries, limit \in SearchLimits : SearchProbe(u, q, limit)
    \/ SearchHitRespond
    \/ SearchFeedProbe
    \/ \E ok \in BOOLEAN : SearchFinish(ok)
    \/ \E u \in Users, prefs \in PrefLists : storeUserPreferences(u, prefs)
    \/ \E u \in Users, prefs \in PrefLists : updateUserPreferences(u, prefs)
    \/ \E u \in Users, a \in Articles : markArticleAsRead(u, a)
    \/ \E k \in DOMAIN store : Expire(k)

Spec == Init /\ [][Next]_vars

\* the read history under the clock: views, the passing of time and the
\* feed of a user without preferences
NextRead ==
    \/ \E u \in Users, a \in Articles : markArticleAsRead(u, a)
    \/ Tick
    \/ \E u \in Users, limit \in Limits : FeedProbe(u, limit)
    \/ FeedMissLoad
    \/ FeedNoPrefs

SpecRead == Init /\ [][NextRead]_vars

----------------------------------------------------------------------------
(* Article metrics, redisService.js 2156-2248 *)

\* the day of the run, the YYYY-MM-DD segment of the daily-views key
Today == "d1"

\* an anonymous view (no userId)
NoUser == "anonymous"

Count(st, k) == IF Has(st, k) THEN st[k] ELSE 0
Members(st, k) == IF Has(st, k) THEN st[k] ELSE {}

\* lTrim(engagementKey, 0, 999)
EngagementKeep == 1000

Records(st, k) == IF Has(st, k) THEN st[k] ELSE <<>>

\* an engagement record is written as the number of the push that made it,
\* counted from the oldest record the list still holds
nextRecord(list) == IF list = <<>> THEN 1 ELSE Head(list) + 1

\* LPUSH, then an LTRIM that keeps the tail of the list
engagementPush_keepsOldest(list, rec) ==
    LET pushed == <<rec>> \o list
    IN  IF Len(pushed) > EngagementKeep
        THEN SubSeq(pushed, Len(pushed) - EngagementKeep + 1, Len(pushed))
        ELSE pushed

\* lines 2204-2205: LPUSH engagementKey, LTRIM engagementKey 0 999
engagementPush(list, rec) == Take(<<rec>> \o list, EngagementKeep)

\* trackArticleMetrics(articleId, userId): INCR of the total and the daily
\* counter, then MULTI { SADD unique, [SADD article_user_views, HSET
\* user_article_views], LPUSH/LTRIM engagement, SET last viewed } EXEC
tracked(st, a, u) ==
    LET st1 == Put(st, <<"article_views", a>>, Count(st, <<"article_views", a>>) + 1)
        st2 == Put(st1, <<"article_daily_views", a, Today>>,
                   Count(st, <<"article_daily_views", a, Today>>) + 1)
        st3 == Put(st2, <<"article_unique_views", a>>, {"unknown"})
        st4 == IF u = NoUser THEN st3
               ELSE Put(Put(st3, <<"article_user_views", a>>,
                            Members(st, <<"article_user_views", a>>) \cup {u}),
                        <<"user_article_views", u>>,
                        Members(st, <<"user_article_views", u>>) \cup {a})
        st5 == Put(st4, <<"article_engagement", a>>,
                   engagementPush(Records(st, <<"article_engagement", a>>),
                                  nextRecord(Records(st, <<"article_engagement", a>>))))
    IN  Put(st5, <<"article_last_viewed", a>>, "ts")

\* a call of trackArticleMetrics on its own
trackArticleMetrics(a, u) ==
    /\ ops < MaxAdminOps
    /\ ops' = ops + 1
    /\ store' = tracked(store, a, u)
    /\ resp' = [kind |-> "metrics", article |-> a, failed |-> FALSE,
                totalViews |-> Count(store, <<"article_views", a>>) + 1,
                dailyViews |-> Count(store, <<"article_daily_views", a, Today>>) + 1]
    /\ UNCHANGED <<req, fresh, prefsBy, cli, view, now>>

\* the store calls of trackArticleMetrics that had gone through when one of
\* its awaits rejected: of the INCR and the HINCRBY of the Promise.all
\* (2170-2173) none or one, both of them when the EXEC of 2212 rejected, and
\* everything when a read of 2217-2221 did
MetricsStages == {"none", "total", "daily", "counters", "all"}

\* lines 2236-2246: an await of trackArticleMetrics rejects; the catch
\* returns zeros
trackArticleMetrics_fails(a, u, stage) ==
    /\ ops < MaxAdminOps
    /\ ops' = ops + 1
    /\ LET tk == <<"article_views", a>>
           dk == <<"article_daily_views", a, Today>>
           t1 == Put(store, tk, Count(store, tk) + 1)
           d1 == Put(store, dk, Count(store, dk) + 1)
       IN  store' = CASE stage = "none" -> store
                      [] stage = "total" -> t1
                      [] stage = "daily" -> d1
                      [] stage = "counters" -> Put(t1, dk, Count(store, dk) + 1)
                      [] OTHER -> tracked(store, a, u)
    /\ resp' = [kind |-> "metrics", article |-> a, failed |-> TRUE,
                totalViews |-> 0, dailyViews |-> 0]
    /\ UNCHANGED <<req, fresh, prefsBy, cli, view, now>>

\* view recordings, with and without store errors
NextMetrics ==
    \/ \E a \in Articles, u \in Users \cup {NoUser} : trackArticleMetrics(a, u)
    \/ \E a \in Articles, u \in Users \cup {NoUser}, stage \in MetricsStages :
          trackArticleMetrics_fails(a, u, stage)

SpecMetrics == Init /\ [][NextMetrics]_vars

\* a1 has been viewed 999 times over the last days, none of them today
InitEngagement ==
    /\ store = [k \in {newsKey(a) : a \in Articles}
                      \cup {indexKey, <<"article_engagement", "a1">>} |->
                  IF k = <<"article_engagement", "a1">>
                  THEN [i \in 1..(EngagementKeep - 1) |-> EngagementKeep - i]
                  ELSE "doc"]
    /\ req = IdleReq
    /\ resp = NoResp
    /\ fresh = {}
    /\ prefsBy = [u \in Users |-> "none"]
    /\ ops = 0
    /\ cli = NoCli
    /\ view = NoView
    /\ now = 0

SpecEngagement == InitEngagement /\ [][NextMetrics]_vars

----------------------------------------------------------------------------
(* The clear operations: cacheClearService.js, scripts/clearAllCache.js *)

cachePatterns_withUser ==
    <<<<"news", "*">>, <<"user", "*">>, <<"user_article_views", "*">>>>

\* cachePatterns of clearAllCacheExceptUser (cacheClearService.js 41-96)
cachePatterns ==
    << <<"news", "*">>, <<"all_articles", "*">>,
       <<"article_daily_views", "*">>, <<"article_engagement", "*">>,
       <<"article_last_viewed", "*">>, <<"article_unique_views", "*">>,
       <<"article_views", "*">>, <<"article_user_views", "*">>,
       <<"user_article_views", "*">>,
       <<"search", "*">>, <<"topic_search", "*">>, <<"sentiment_search", "*">>,
       <<"similar", "*">>, <<"similar_meta", "*">>, <<"similar_stats", "*">>,
       <<"similar_bloom", "*">>, <<"similar_cache_lru">>,
       <<"similar_unique_articles", "*">>,
       <<"personalized", "*">>, <<"personalized_simple", "*">>,
       <<"personalized_search", "*">>, <<"personalized_search_simple", "*">>,
       <<"personalized_meta", "*">>, <<"personalized_stats", "*">>,
       <<"personalized_search_stats_simple", "*">>,
       <<"personalized_stats_simple", "*">>, <<"personalized_cache_lru">>,
       <<"prefs_version", "*">>, <<"prefs_version_simple", "*">>,
       <<"fallback", "*">>, <<"personalized_fallback", "*">>,
       <<"temp", "*">>, <<"cache_stats", "*">>,
       <<"vector", "*">>, <<"embedding", "*">>,
       <<"idx", "*">>, <<"search_meta", "*">> >>

\* userDataPatterns (cacheClearService.js 100-102): counted, never deleted
userDataPatterns == <<<<"user", "*">>>>

\* allCachePatterns[cacheType] of clearSpecificCacheTypes (226-284); an
\* unknown type is skipped (308-311)
allCachePatterns(cacheType) ==
    CASE cacheType = "articles" -> <<<<"news", "*">>, <<"all_articles", "*">>>>
      [] cacheType = "article_metrics" ->
            << <<"article_daily_views", "*">>, <<"article_engagement", "*">>,
               <<"article_last_viewed", "*">>, <<"article_unique_views", "*">>,
               <<"article_views", "*">>, <<"article_user_views", "*">>,
               <<"user_article_views", "*">> >>
      [] cacheType = "search" ->
            <<<<"search", "*">>, <<"topic_search", "*">>, <<"sentiment_search", "*">>>>
      [] cacheType = "similar_articles" ->
            << <<"similar", "*">>, <<"similar_meta", "*">>, <<"similar_stats", "*">>,
               <<"similar_bloom", "*">>, <<"similar_cache_lru">>,
               <<"similar_unique_articles", "*">> >>
      [] cacheType = "personalized" ->
            << <<"personalized", "*">>, <<"personalized_simple", "*">>,
               <<"personalized_search", "*">>, <<"personalized_search_simple", "*">>,
               <<"personalized_meta", "*">>, <<"personalized_stats", "*">>,
               <<"personalized_search_stats_simple", "*">>,
               <<"personalized_stats_simple", "*">>, <<"personalized_cache_lru">> >>
      [] cacheType = "versions" ->
            <<<<"prefs_version", "*">>, <<"prefs_version_simple", "*">>>>
      [] cacheType = "fallbacks" ->
            <<<<"fallback", "*">>, <<"personalized_fallback", "*">>>>
      [] cacheType = "temp" -> <<<<"temp", "*">>, <<"cache_stats", "*">>>>
      [] cacheType = "vectors" -> <<<<"vector", "*">>, <<"embedding", "*">>>>
      [] cacheType = "search_index" -> <<<<"idx", "*">>, <<"search_meta", "*">>>>
      [] OTHER -> <<>>

\* cachePatterns of clearAllCache (scripts/clearAllCache.js 23-71)
clearAllCache_cachePatterns ==
    << <<"news", "*">>, <<"all_articles", "*">>,
       <<"search", "*">>, <<"topic_search", "*">>, <<"sentiment_search", "*">>,
       <<"similar", "*">>, <<"similar_meta", "*">>, <<"similar_stats", "*">>,
       <<"similar_bloom", "*">>, <<"similar_cache_lru">>,
       <<"personalized", "*">>, <<"personalized_simple", "*">>,
       <<"personalized_search", "*">>, <<"personalized_search_simple", "*">>,
       <<"personalized_meta", "*">>, <<"personalized_stats", "*">>,
       <<"personalized_cache_lru">>,
       <<"user", "*", "preferences">>, <<"user", "*", "read", "*">>,
       <<"user", "*", "read_set">>,
       <<"prefs_version", "*">>, <<"prefs_version_simple", "*">>,
       <<"fallback", "*">>, <<"personalized_fallback", "*">>,
       <<"temp", "*">>, <<"cache_stats", "*">>,
       <<"vector", "*">>, <<"embedding", "*">>,
       <<"idx", "*">>, <<"search_meta", "*">> >>

ClearPatterns_abortsAtError(st, pats, failed) ==
    LET bad == {i \in 1..Len(pats) : pats[i] \in failed}
        done == {i \in 1..Len(pats) : \A j \in bad : i < j}
    IN  Del(st, UNION {KeysMatching(st, pats[i]) : i \in done})

\* for (pattern of pats) try { keys = KEYS pattern; if any, DEL keys }
\* catch { errors.push }: the patterns in failed threw, the others deleted
\* what they matched
ClearPatterns(st, pats, failed) ==
    Del(st, UNION {KeysMatching(st, p) : p \in Range(pats) \ failed})

\* metrics.cacheTypes with an entry for every pattern of the run
reportCacheTypes_all(st, pats, failed) == Range(pats)

\* the patterns with an entry in metrics.cacheTypes (cacheClearService.js
\* 128-141): those whose KEYS found at least one key and whose DEL went
\* through
reportCacheTypes(st, pats, failed) ==
    {p \in Range(pats) \ failed : KeysMatching(st, p) # {}}

\* the metrics object the clear functions return
Metrics(st, after, failed) ==
    [totalKeysCleared |-> Cardinality(DOMAIN st \ DOMAIN after),
     errors |-> failed,
     preservedUserData |-> Cardinality(UNION {KeysMatching(st, p) :
                                               p \in Range(userDataPatterns)})]

\* clearAllCacheExceptUser() (cacheClearService.js 24-204)
clearAllCacheExceptUser(st, failed) == ClearPatterns(st, cachePatterns, failed)

RECURSIVE typePatterns(_)
\* the patterns of the requested types, in order
typePatterns(cacheTypes) ==
    IF cacheTypes = <<>> THEN <<>>
    ELSE allCachePatterns(Head(cacheTypes)) \o typePatterns(Tail(cacheTypes))

\* the patterns a call of clearSpecificCacheTypes(cacheTypes) goes through:
\* those of clearAllCacheExceptUser for an empty list (286-290)
specificPatterns(cacheTypes) ==
    IF cacheTypes = <<>> THEN cachePatterns ELSE typePatterns(cacheTypes)

clearSpecificCacheTypes_allTypes(st, cacheTypes, failed) ==
    ClearPatterns(st, cachePatterns, failed)

\* clearSpecificCacheTypes(cacheTypes) (209-370): an empty list is handed to
\* clearAllCacheExceptUser (286-290); otherwise the patterns of the types
\* named, unknown names being passed over (303-307)
clearSpecificCacheTypes(st, cacheTypes, failed) ==
    IF cacheTypes = <<>> THEN clearAllCacheExceptUser(st, failed)
    ELSE ClearPatterns(st, typePatterns(cacheTypes), failed)

\* clearAllCache() (scripts/clearAllCache.js 7-214): the patterns, then
\* FT.DROPINDEX idx:news, whose error is swallowed
clearAllCache(st, failed) ==
    Del(ClearPatterns(st, clearAllCache_cachePatterns, failed), {indexKey})

\* clearEverythingInRedis() (scripts/clearAllCache.js 282-498): SCAN and DEL
\* of every key, FT.DROPINDEX of every index, FLUSHDB of every database
clearEverythingInRedis(st) == Del(st, DOMAIN st)

\* the patterns an error can strike with an effect on the outcome: those
\* that match a key; each error counts against the bound of the behaviour
FailSets(pats) ==
    {F \in SUBSET {p \in Range(pats) : KeysMatching(store, p) # {}} :
        Cardinality(F) < MaxAdminOps - ops}

\* the outcome of one run of a clear function: the store after it and, in
\* the response, the store before it and the metrics
Cleared(fn, entry, mode, token, after, failed) ==
    /\ store' = after
    /\ ops' = ops + 1 + Cardinality(failed)
    /\ resp' = [kind |-> "clear", fn |-> fn, entry |-> entry, mode |-> mode,
                token |-> token,
                types |-> IF cli.pc = "prompt" THEN cli.types ELSE <<>>,
                before |-> store, metrics |-> Metrics(store, after, failed),
                exit |-> 0]
    /\ cli' = NoCli
    /\ UNCHANGED <<view, now>>

\* the run ends without calling a clear function: main returns (clearCache.js
\* 72-75, 104-107), nothing is pending, and node exits with code 0
Cancelled(entry, token) ==
    /\ resp' = [kind |-> "cancelled", entry |-> entry, token |-> token,
                mode |-> cli.mode, exit |-> 0]
    /\ cli' = NoCli
    /\ UNCHANGED <<view, now>>
    /\ UNCHANGED <<store, ops>>

\* the run waits at its readline question
Asks(script, mode, types) ==
    /\ cli' = [pc |-> "prompt", script |-> script, mode |-> mode, types |-> types]
    /\ UNCHANGED <<view, now>>
    /\ ops' = ops + 1
    /\ resp' = NoResp
    /\ UNCHANGED store

\* what the operator types at a prompt
Answers == {"y", "YES", "n", "NUCLEAR", "nuclear"}

\* String.prototype.toLowerCase on the answers and on the topics
toLowerCase(a) ==
    CASE a = "YES" -> "yes" [] a = "NUCLEAR" -> "nuclear"
      [] a = "AI" -> "ai" [] a = "Tech" -> "tech" [] OTHER -> a

\* answer.toLowerCase() !== 'y' && answer.toLowerCase() !== 'yes' is false
Yes(a) == toLowerCase(a) \in {"y", "yes"}

\* the --specific arguments in use
SpecificTypes == {<<"article_metrics">>, <<"personalized", "versions">>, <<"articles", "bogus">>}

\* node clearCacheExceptUser.js [--force | --specific types]
\* (scripts/clearCacheExceptUser.js 5-117) up to its question, or through
\* the clear when --force is given
clearCacheExceptUser_main(mode, types) ==
    /\ cli.pc = "off"
    /\ ops < MaxAdminOps
    /\ \/ /\ mode = "specific"
          /\ Asks("clearCacheExceptUser.js", mode, types)
       \/ /\ mode = "clear"
          /\ types = <<>>
          /\ Asks("clearCacheExceptUser.js", mode, types)
       \/ /\ mode = "force"
          /\ types = <<>>
          /\ \E failed \in FailSets(cachePatterns) :
                Cleared("clearAllCacheExceptUser", "clearCacheExceptUser.js", mode, "none",
                        clearAllCacheExceptUser(store, failed), failed)
    /\ UNCHANGED <<req, fresh, prefsBy>>

\* the answer to the question of clearCacheExceptUser.js (71-74, 103-106)
clearCacheExceptUser_answer(answer) ==
    /\ cli.pc = "prompt"
    /\ cli.script = "clearCacheExceptUser.js"
    /\ IF ~Yes(answer) THEN Cancelled(cli.script, answer)
       ELSE IF cli.mode = "specific"
       THEN \E failed \in FailSets(typePatterns(cli.types)) :
                Cleared("clearSpecificCacheTypes", cli.script, cli.mode, answer,
                        clearSpecificCacheTypes(store, cli.types, failed), failed)
       ELSE \E failed \in FailSets(cachePatterns) :
                Cleared("clearAllCacheExceptUser", cli.script, cli.mode, answer,
                        clearAllCacheExceptUser(store, failed), failed)
    /\ UNCHANGED <<req, fresh, prefsBy>>

\* a call of the exported clearSpecificCacheTypes(cacheTypes) by a module
\* that requires cacheClearService.js (472-476), with any list
clearSpecificCacheTypes_call(types) ==
    /\ cli.pc = "off"
    /\ ops < MaxAdminOps
    /\ \E failed \in FailSets(specificPatterns(types)) :
          LET after == clearSpecificCacheTypes(store, types, failed)
          IN  /\ store' = after
              /\ ops' = ops + 1 + Cardinality(failed)
              /\ resp' = [kind |-> "clear", fn |-> "clearSpecificCacheTypes",
                          entry |-> "module", mode |-> "specific", token |-> "none",
                          types |-> types, before |-> store,
                          metrics |-> Metrics(store, after, failed)]
    /\ UNCHANGED <<req, fresh, prefsBy, cli, view, now>>

\* node clearCache.js [--force | --nuclear] (clearCache.js 5-117) up to its
\* question, or through the clear when --force is given
clearCache_main(mode) ==
    /\ cli.pc = "off"
    /\ ops < MaxAdminOps
    /\ \/ /\ mode \in {"nuclear", "clear"}
          /\ Asks("clearCache.js", mode, <<>>)
       \/ /\ mode = "force"
          /\ \E failed \in FailSets(clearAllCache_cachePatterns) :
                Cleared("clearAllCache", "clearCache.js", mode, "none",
                        clearAllCache(store, failed), failed)
    /\ UNCHANGED <<req, fresh, prefsBy>>

\* the answer to the question of clearCache.js (72-75, 104-107)
clearCache_answer(answer) ==
    /\ cli.pc = "prompt"
    /\ cli.script = "clearCache.js"
    /\ IF cli.mode = "nuclear"
       THEN IF answer # "NUCLEAR" THEN Cancelled(cli.script, answer)
            ELSE Cleared("clearEverythingInRedis", cli.script, cli.mode, answer,
                         clearEverythingInRedis(store), {})
       ELSE IF ~Yes(answer) THEN Cancelled(cli.script, answer)
            ELSE \E failed \in FailSets(clearAllCache_cachePatterns) :
                    Cleared("clearAllCache", cli.script, cli.mode, answer,
                            clearAllCache(store, failed), failed)
    /\ UNCHANGED <<req, fresh, prefsBy>>

\* node clearAllCache.js [--nuclear] (scripts/clearAllCache.js 578-605): the
\* module run as a script asks nothing
clearAllCache_main(mode) ==
    /\ cli.pc = "off"
    /\ ops < MaxAdminOps
    /\ IF mode = "nuclear"
       THEN Cleared("clearEverythingInRedis", "clearAllCache.js", mode, "none",
                    clearEverythingInRedis(store), {})
       ELSE \E failed \in FailSets(clearAllCache_cachePatterns) :
                Cleared("clearAllCache", "clearAllCache.js", mode, "none",
                        clearAllCache(store, failed), failed)
    /\ UNCHANGED <<req, fresh, prefsBy>>

\* the server and the admin scripts on one store
NextAdmin ==
    \/ \E u \in Users, prefs \in PrefLists : storeUserPreferences(u, prefs)
    \/ \E u \in Users, a \in Articles : markArticleAsRead(u, a)
    \/ \E a \in Articles, u \in Users \cup {NoUser} : trackArticleMetrics(a, u)
    \/ \E types \in SpecificTypes \cup {<<>>}, mode \in {"clear", "force", "specific"} :
          clearCacheExceptUser_main(mode, types)
    \/ \E answer \in Answers : clearCacheExceptUser_answer(answer)
    \/ \E mode \in {"clear", "force", "nuclear"} : clearCache_main(mode)
    \/ \E answer \in Answers : clearCache_answer(answer)
    \/ \E mode \in {"clear", "nuclear"} : clearAllCache_main(mode)

SpecAdmin == Init /\ [][NextAdmin]_vars

----------------------------------------------------------------------------
(* The article view, newsController.js 108-163 *)

\* getPersonalizedNews(userId) of line 141 runs with limit = 10 (default)
DefaultLimit == 10

\* the ids a client asks for: the stored articles and one that is not stored
ViewIds == Articles \cup {"a0"}

\* the three calls of lines 138-142, started and not awaited
BackgroundTasks == {"mark", "clear", "feed"}

\* GET /api/news/:id, to the response: 404 for an article that is not
\* stored; otherwise trackArticleMetrics is awaited, the three background
\* tasks are started when a user id came with the request, and the 200 is
\* sent without waiting for them
getArticleById(u, a) ==
    /\ view.pc = "off" \/ ViewDone
    /\ ops < MaxOps
    /\ ops' = ops + 1
    /\ IF ~Has(store, newsKey(a))
       THEN /\ resp' = [kind |-> "view", status |-> 404, user |-> u, article |-> a]
            /\ UNCHANGED <<store, view, req>>
       ELSE /\ store' = tracked(store, a, u)
            /\ resp' = [kind |-> "view", status |-> 200, user |-> u, article |-> a]
            /\ IF u = NoUser
               THEN UNCHANGED <<view, req>>
               ELSE /\ view' = [pc |-> "tasks", user |-> u, article |-> a,
                                pending |-> BackgroundTasks,
                                before |-> KeysMatching(store,
                                              <<"personalized_simple", u, "*">>)]
                    /\ req' = IF req.pc # "idle" /\ req.user = u
                               THEN [req EXCEPT !.afterView = FALSE] ELSE req
    /\ UNCHANGED <<fresh, prefsBy, cli, now>>

\* lines 159-162: an await of the handler rejects: 500
getArticleById_fails ==
    /\ view.pc = "off" \/ ViewDone
    /\ ops < MaxOps
    /\ ops' = ops + 1
    /\ resp' = [kind |-> "view", status |-> 500]
    /\ UNCHANGED <<store, req, fresh, prefsBy, cli, view, now>>

\* one of the background tasks has ended
Ended(task) == view' = [view EXCEPT !.pending = @ \ {task}]

\* line 139: markArticleAsRead(userId, id) runs to its end
ViewMark ==
    /\ view.pc = "tasks"
    /\ "mark" \in view.pending
    /\ store' = marked(store, view.user, view.article)
    /\ req' = IF req.pc # "idle" /\ req.user = view.user
               THEN [req EXCEPT !.viewed = @ \cup {view.article}] ELSE req
    /\ resp' = NoResp
    /\ Ended("mark")
    /\ UNCHANGED <<fresh, prefsBy, ops, cli, now>>

\* line 140: clearPersonalizedCache(userId) runs to its end
ViewClear ==
    /\ view.pc = "tasks"
    /\ "clear" \in view.pending
    /\ store' = clearPersonalizedCache(store, view.user)
    /\ resp' = NoResp
    /\ Ended("clear")
    /\ UNCHANGED <<req, fresh, prefsBy, ops, cli, now>>

\* lines 142-144: markArticleAsRead or clearPersonalizedCache rejects on its
\* first store command; the rejection is logged, the response is not touched
ViewTaskFails(task) ==
    /\ view.pc = "tasks"
    /\ task \in view.pending \ {"feed"}
    /\ ops < MaxOps
    /\ ops' = ops + 1
    /\ resp' = NoResp
    /\ Ended(task)
    /\ UNCHANGED <<store, req, fresh, prefsBy, cli, now>>

\* line 141: getPersonalizedNews(userId) begins; it goes on through the
\* steps of the feed
ViewFeed ==
    /\ view.pc = "tasks"
    /\ "feed" \in view.pending
    /\ req.pc = "idle"
    /\ Probe(NewReq("background", view.user, DefaultLimit, 0, "", 0, 0))
    /\ Ended("feed")
    /\ UNCHANGED <<fresh, prefsBy, ops, cli, now>>

NextView ==
    \/ \E u \in Users \cup {NoUser}, a \in ViewIds : getArticleById(u, a)
    \/ getArticleById_fails
    \/ ViewMark
    \/ ViewClear
    \/ \E task \in BackgroundTasks : ViewTaskFails(task)
    \/ ViewFeed
    \/ \E u \in Users, limit \in Limits : FeedProbe(u, limit)
    \/ FeedHitRespond
    \/ FeedHitFails
    \/ FeedMissLoad
    \/ FeedNoPrefs
    \/ FeedSearch
    \/ FeedTopUp
    \/ FeedTopUpFails
    \/ FeedWriteBack
    \/ FeedFails
    \/ FeedErrorFallback
    \/ FeedErrorEmpty
    \/ \E u \in Users, prefs \in PrefLists : storeUserPreferences(u, prefs)

SpecView == Init /\ [][NextView]_vars

----------------------------------------------------------------------------
(* Similar articles: findSimilarArticles, redisService.js 1103-1376 *)

SimilarThreshold == 50       \* vectorSearchSimilarNews(..., 0.5, ...)
SimilarAddend == 20          \* limit + offset + 20
LruKeep == 1000              \* zRemRangeByRank(key, 0, -1001)
TextWeight == 4              \* weights of the fusion, in tenths
SemanticWeight == 3
CategoryWeight == 2
TemporalWeight == 1
DefaultWeight == 1           \* weights[type] || 0.1
SentimentScore == 30         \* calculateCategoryScore, in percent
CategoryScore == 30
TemporalDays == 7            \* daysBefore, daysAfter
TemporalNorm == 30           \* 1 - diffDays / 30
SemanticFloor == 10          \* Math.max(0.1, ...)

\* the articles of the similar-articles runs: a3 is ingested during the run
SimArticles == Articles \cup {"a3"}

\* by publishedAt, newest first, and in the order Redis gives equal scores
SimNewest == <<"a3", "a2", "a1">>
Lex == <<"a1", "a2", "a3">>

\* the fields of the stored documents the strategies read
searchText(a) == CASE a = "a1" -> "kw1" [] a = "a2" -> "kw2" [] OTHER -> "kw3"
Sentiment(a) == IF a = "a3" THEN "negative" ELSE "positive"
PublishedDay(a) == CASE a = "a1" -> 10 [] a = "a2" -> 12 [] OTHER -> 30
TextMatches(a) == IF a = "a1" THEN {"a2", "a3"} ELSE {"a1"}
SemanticMatches(a) == CASE a = "a1" -> {"a2"} [] a = "a2" -> {"a1"} [] OTHER -> {}

simKey(a, limit, offset) == <<"similar", a, Str(limit), Str(offset)>>
simMetaKey(a) == <<"similar_meta", a>>
simStatsKey(a) == <<"similar_stats", a>>
simLruKey == <<"similar_cache_lru">>
simFallbackKey(a) == <<"similar", a, "fallback">>
simUniqueKey == <<"similar_unique_articles", Today>>

\* FT.SEARCH idx:news: the stored articles, newest first
SimCorpus(st) == SelectIds(SimNewest, {a \in SimArticles : Has(st, newsKey(a))})

\* vectorSearchSimilarNews with the excludeId filter dropped
vectorSearchExcluding_keepsSelf(st, text, limit, threshold, excludeId) ==
    LET cands == Take(knnRecs(st, text, Range(SimCorpus(st))), 2 * limit)
        kept  == SelectRecs(cands,
                     {cands[i].id : i \in {j \in 1..Len(cands) : cands[j].score >= threshold}})
    IN  Take(SortDesc(kept), limit)

\* vectorSearchSimilarNews(searchText, limit, threshold, {}, excludeId)
\* (100-206): the 2 * limit nearest of the articles other than excludeId,
\* those with similarity >= threshold, best first, at most limit
vectorSearchExcluding(st, text, limit, threshold, excludeId) ==
    LET cands == Take(knnRecs(st, text, Range(SimCorpus(st)) \ {excludeId}), 2 * limit)
        kept  == SelectRecs(cands,
                     {cands[i].id : i \in {j \in 1..Len(cands) : cands[j].score >= threshold}})
    IN  Take(SortDesc(kept), limit)

\* the documents of a strategy's FT.SEARCH: those of set match other than
\* the target, newest first, at most limit
searched(st, match, target, limit) == Take(SelectIds(SimCorpus(st), match \ {target}), limit)

\* advancedTextSimilarity (1503-1538): score 1 - index / length
advancedTextSimilarity(st, target, limit) ==
    LET docs == searched(st, TextMatches(target), target, limit)
    IN  [i \in 1..Len(docs) |->
            [id |-> docs[i], type |-> "text",
             score |-> 100 - ((i - 1) * 100) \div Len(docs)]]

\* semanticSimilarity (1541-1575): score max(0.1, 1 - index / length)
semanticSimilarity(st, target, limit) ==
    LET docs == searched(st, SemanticMatches(target), target, limit)
    IN  [i \in 1..Len(docs) |->
            [id |-> docs[i], type |-> "semantic",
             score |-> LET v == 100 - ((i - 1) * 100) \div Len(docs)
                       IN  IF v < SemanticFloor THEN SemanticFloor ELSE v]]

\* categoryBasedSimilarity (1578-1618): the articles of the target's
\* sentiment; the query "@sentiment:{s} -@article_id:{id}" is built without
\* parentheses (1593-1597), and when it has a second filter the exclusion
\* binds to one of them only under query dialect 2: self says the target
\* came back among the documents
categoryBasedSimilarity(st, target, limit, self) ==
    LET same == {a \in SimArticles : Sentiment(a) = Sentiment(target)}
        docs == Take(SelectIds(SimCorpus(st),
                               IF self THEN same ELSE same \ {target}), limit)
    IN  [i \in 1..Len(docs) |->
            [id |-> docs[i], type |-> "category",
             score |-> SentimentScore + CategoryScore]]

\* temporalSimilarity (1621-1662) with calculateTemporalScore (1788-1794):
\* the newest limit articles other than the target, those within 7 days of
\* it, score max(0, 1 - days / 30)
temporalSimilarity(st, target, limit) ==
    LET docs  == searched(st, SimArticles, target, limit)
        days(a) == IF PublishedDay(a) >= PublishedDay(target)
                   THEN PublishedDay(a) - PublishedDay(target)
                   ELSE PublishedDay(target) - PublishedDay(a)
        near  == SelectIds(docs, {a \in SimArticles : days(a) <= TemporalDays})
    IN  [i \in 1..Len(near) |->
            [id |-> near[i], type |-> "temporal",
             score |-> LET v == 100 - (days(near[i]) * 100) \div TemporalNorm
                       IN  IF v < 0 THEN 0 ELSE v]]

Strategies == {"text", "semantic", "category", "temporal"}

\* a strategy that met an error takes the whole fusion down with it
settled_allOrNothing(results, failed) ==
    IF failed = {} THEN results ELSE <<<<>>, <<>>, <<>>, <<>>>>

\* lines 1259-1267: what Promise.allSettled hands to the fusion: a strategy
\* that met an error has caught it and contributes an empty list
settled(results, failed) ==
    LET name == <<"text", "semantic", "category", "temporal">>
    IN  [i \in 1..4 |-> IF name[i] \in failed THEN <<>> ELSE results[i]]

\* the four strategies of lines 1259-1264, each as it answers when it meets
\* no error
strategyResults(st, target, limit, self) ==
    <<advancedTextSimilarity(st, target, limit),
      semanticSimilarity(st, target, limit),
      categoryBasedSimilarity(st, target, limit, self),
      temporalSimilarity(st, target, limit)>>

\* history: the articles, other than the target, that the strategies which
\* met no error returned
candidatesOf(lists, failed, target) ==
    LET name == <<"text", "semantic", "category", "temporal">>
    IN  UNION {Range(Ids(lists[i])) : i \in {j \in 1..4 : name[j] \notin failed}}
            \ {target}

weightOf(type) ==
    CASE type = "text" -> TextWeight [] type = "semantic" -> SemanticWeight
      [] type = "category" -> CategoryWeight [] type = "temporal" -> TemporalWeight
      [] OTHER -> DefaultWeight

RECURSIVE sumScores(_, _)
\* the weighted score article id collects from one strategy's list
sumScores(recs, id) ==
    IF recs = <<>> THEN 0
    ELSE (IF Head(recs).id = id THEN Head(recs).score * weightOf(Head(recs).type) ELSE 0)
             + sumScores(Tail(recs), id)

\* lines 1676-1690: articleScores: every article other than the target that
\* a strategy returned, with the sum of its weighted scores
fusedScores(results, targetId) ==
    LET ids == UNION {Range(Ids(results[i])) : i \in 1..Len(results)} \ {targetId}
    IN  [id \in ids |-> sumScores(results[1] \o results[2] \o results[3] \o results[4], id)]

LexRank(a) == CHOOSE i \in 1..Len(Lex) : Lex[i] = a

RECURSIVE byScoreAsc(_, _)
\* the members of a sorted set: ascending score, then ascending member
byScoreAsc(scores, left) ==
    IF left = {} THEN <<>>
    ELSE LET least == CHOOSE a \in left : \A b \in left :
                          \/ scores[a] < scores[b]
                          \/ scores[a] = scores[b] /\ LexRank(a) <= LexRank(b)
         IN  <<least>> \o byScoreAsc(scores, left \ {least})

Reverse(seq) == [i \in 1..Len(seq) |-> seq[Len(seq) + 1 - i]]

\* combineAndRankSimilarity (1664-1729) when its store calls succeed: ZADD
\* to a temporary key, ZRANGEBYSCORE -inf +inf with LIMIT offset limit, DEL,
\* and one JSON.GET per id.  rev says whether the REV option of line 1704
\* reversed the order: the call hands it to the client library, which is
\* not part of the sources.
combineAndRankSimilarity(st, results, targetId, limit, offset, rev) ==
    LET scores == fusedScores(results, targetId)
        asc    == byScoreAsc(scores, DOMAIN scores)
        top    == Slice(IF rev THEN Reverse(asc) ELSE asc, offset, offset + limit)
    IN  SelectIds(top, {a \in SimArticles : Has(st, newsKey(a))})

\* combineAndRankSimilarity (1730-1736) when a store call of it rejects: the
\* first strategy's list, paged
combineAndRankSimilarity_catch(results, limit, offset) ==
    Slice(Ids(results[1]), offset, offset + limit)

\* ZADD of the cache key with score now, then ZREMRANGEBYRANK 0 -1001: the
\* members oldest first, the LruKeep newest kept
lruAdd_trimsNewest(members, key) ==
    LET others == SelectSeq(members, LAMBDA k : k # key)
        added  == others \o <<key>>
    IN  IF Len(added) > LruKeep THEN SubSeq(added, 1, LruKeep) ELSE added

lruAdd(members, key) ==
    LET others == SelectSeq(members, LAMBDA k : k # key)
        added  == others \o <<key>>
    IN  IF Len(added) > LruKeep
        THEN SubSeq(added, Len(added) - LruKeep + 1, Len(added))
        ELSE added

\* lines 1277-1316: the MULTI of the write-back: payload, sidecar and LRU
\* set.  first is history: the page returned by the miss that wrote the
\* entry; page, in the sidecar, is history too: the limit and offset of the
\* request that wrote it.
simWriteBack(st, a, limit, offset, ids) ==
    LET payload == [results |-> ids, first |-> Slice(ids, offset, offset + limit)]
        st1 == Put(st, simKey(a, limit, offset), payload)
        st2 == Put(st1, simMetaKey(a),
                   [totalCount |-> Len(ids), page |-> <<limit, offset>>])
    IN  Put(st2, simLruKey,
            lruAdd(IF Has(st, simLruKey) THEN st[simLruKey] ELSE <<>>,
                   simKey(a, limit, offset)))

\* a call of findSimilarArticles(a, limit, offset) in flight.  History:
\* hadEntry says the payload was in the store when the cache was probed,
\* probeFailed that a store call of the hit path rejected, failed the
\* strategies that met an error, fusedOk that the fusion's own store calls
\* succeeded, failedAt the step whose rejection reached the catch of 1347,
\* self that the category strategy returned the target, candidates the
\* articles returned by the strategies that met no error
NewSim(a, limit, offset) ==
    [pc |-> "probe", kind |-> "similar", user |-> NoUser, article |-> a,
     limit |-> limit, offset |-> offset, results |-> <<>>, first |-> <<>>,
     method |-> "none", hadEntry |-> FALSE, probeFailed |-> FALSE,
     failed |-> {}, fusedOk |-> TRUE, failedAt |-> "none", self |-> FALSE,
     candidates |-> {}, totalCount |-> 0, metaPage |-> <<>>]

\* the object findSimilarArticles returns, with the request's history;
\* tombstone says which of the two ends of the catch produced it
SimResult(r, ids, cached, fallback, error, tombstone) ==
    [kind |-> "similar", article |-> r.article, limit |-> r.limit,
     offset |-> r.offset,
     articles |-> Slice(ids, r.offset, r.offset + r.limit), all |-> ids,
     cached |-> cached, fallback |-> fallback, error |-> error,
     method |-> r.method, path |-> r.pc, first |-> r.first,
     hadEntry |-> r.hadEntry, probeFailed |-> r.probeFailed,
     failed |-> r.failed, fusedOk |-> r.fusedOk, failedAt |-> r.failedAt,
     self |-> r.self, candidates |-> r.candidates, tombstone |-> tombstone,
     totalCount |-> IF cached THEN r.totalCount ELSE Len(ids),
     metaPage |-> r.metaPage]

\* the articles, page sizes and offsets of the similar-articles requests
SimTargets == {"a1", "a3"}
SimPages == {<<1, 0>>, <<1, 1>>, <<2, 0>>}

\* a statistics hash that does not exist reads as no field at all
NoStats == [cache_hits |-> 0, cache_misses |-> 0, total_requests |-> 0]

\* hGetAll(statsKey) of lines 1187, 1337 and 1387
simStats(st, a) == IF Has(st, simStatsKey(a)) THEN st[simStatsKey(a)] ELSE NoStats

\* redis.hIncrBy(statsKey, field, 1): the field starts at 0 in a hash
\* that has none
hIncrBy(st, a, field) ==
    Put(st, simStatsKey(a), [simStats(st, a) EXCEPT ![field] = @ + 1])

\* the hit test of lines 1130-1134 alone, which never sees a hit
simHit_pipelineOnly(st, a, limit, offset) == FALSE

\* lines 1127-1134 and 1165-1175: the payload and the sidecar are both there
\* (the test of the MULTI reply, 1130-1134, reads reply[i][0] of a reply that
\* holds the values themselves and never sees a hit; the reads of 1167-1170
\* decide)
simHit(st, a, limit, offset) ==
    Has(st, simKey(a, limit, offset)) /\ Has(st, simMetaKey(a))

\* GET /api/news/:id/similar begins: the cache probe
SimProbe(a, limit, offset) ==
    /\ req.pc = "idle"
    /\ ops < MaxSimOps
    /\ ops' = ops + 1
    /\ LET r  == [NewSim(a, limit, offset)
                    EXCEPT !.hadEntry = Has(store, simKey(a, limit, offset))]
           ck == simKey(a, limit, offset)
       IN  req' = IF simHit(store, a, limit, offset)
                  THEN [r EXCEPT !.pc = "hit", !.results = store[ck].results,
                                 !.first = store[ck].first,
                                 !.totalCount = store[simMetaKey(a)].totalCount,
                                 !.metaPage = store[simMetaKey(a)].page]
                  ELSE [r EXCEPT !.pc = "miss"]
    /\ resp' = NoResp
    /\ UNCHANGED <<store, fresh, prefsBy, cli, view, now>>

\* lines 1176-1199: count the hit and return the slice of the payload
SimHitRespond ==
    /\ req.pc = "hit"
    /\ store' = hIncrBy(hIncrBy(store, req.article, "cache_hits"),
                        req.article, "total_requests")
    /\ resp' = SimResult(req, req.results, TRUE, FALSE, FALSE, FALSE)
    /\ req' = IdleReq
    /\ UNCHANGED <<fresh, prefsBy, ops, cli, view, now>>

\* lines 1200-1203: a store call of the hit path rejects; the request goes
\* on as a miss
SimHitFails ==
    /\ req.pc = "hit"
    /\ ops < MaxSimOps
    /\ ops' = ops + 1
    /\ req' = [req EXCEPT !.pc = "miss", !.results = <<>>, !.first = <<>>,
                          !.probeFailed = TRUE]
    /\ resp' = NoResp
    /\ UNCHANGED <<store, fresh, prefsBy, cli, view, now>>

\* lines 1173-1174 and 1200-1203: the hit is counted, then the second
\* hIncrBy rejects; the catch of the cache check lets the request go on as
\* a miss
SimHitCountFails ==
    /\ req.pc = "hit"
    /\ ops < MaxSimOps
    /\ ops' = ops + 1
    /\ store' = hIncrBy(store, req.article, "cache_hits")
    /\ req' = [req EXCEPT !.pc = "miss", !.results = <<>>, !.first = <<>>,
                          !.probeFailed = TRUE]
    /\ resp' = NoResp
    /\ UNCHANGED <<fresh, prefsBy, cli, view, now>>

\* lines 1204-1205 and 1347: the miss is counted, then the second hIncrBy
\* rejects and the catch of the function takes over
SimMissCountFails ==
    /\ req.pc = "miss"
    /\ ops < MaxSimOps
    /\ ops' = ops + 1
    /\ store' = hIncrBy(store, req.article, "cache_misses")
    /\ req' = [req EXCEPT !.pc = "error", !.failedAt = req.pc]
    /\ resp' = NoResp
    /\ UNCHANGED <<fresh, prefsBy, cli, view, now>>

\* lines 1206-1221: count the miss and load the target; an article that is
\* not stored gives an empty answer that is not cached
SimMissLoad ==
    /\ req.pc = "miss"
    /\ store' = hIncrBy(hIncrBy(store, req.article, "cache_misses"),
                        req.article, "total_requests")
    /\ IF Has(store, newsKey(req.article))
       THEN /\ req' = [req EXCEPT !.pc = "vector"]
            /\ resp' = NoResp
       ELSE /\ req' = IdleReq
            /\ resp' = SimResult(req, <<>>, FALSE, FALSE, FALSE, FALSE)
    /\ UNCHANGED <<fresh, prefsBy, ops, cli, view, now>>

\* lines 1236-1252: the vector search
SimVector ==
    /\ req.pc = "vector"
    /\ LET found == vectorSearchExcluding(store, searchText(req.article),
                        req.limit + req.offset + SimilarAddend, SimilarThreshold,
                        req.article)
       IN  req' = [req EXCEPT !.pc = "writeback", !.results = Ids(found),
                              !.method = "vector"]
    /\ resp' = NoResp
    /\ UNCHANGED <<store, fresh, prefsBy, ops, cli, view, now>>

\* lines 1254-1256: the embedding or the KNN query rejects
SimVectorFails ==
    /\ req.pc = "vector"
    /\ ops < MaxSimOps
    /\ ops' = ops + 1
    /\ req' = [req EXCEPT !.pc = "fuse", !.method = "text"]
    /\ resp' = NoResp
    /\ UNCHANGED <<store, fresh, prefsBy, cli, view, now>>

\* lines 1258-1274: the four strategies and their fusion; failed are the
\* strategies that met an error
SimFuse(failed, self, rev) ==
    /\ req.pc = "fuse"
    /\ LET n     == req.limit + req.offset + SimilarAddend
           lists == strategyResults(store, req.article, n, self)
       IN  req' = [req EXCEPT !.pc = "writeback", !.failed = failed, !.self = self,
                       !.candidates = candidatesOf(lists, failed, req.article),
                       !.results = combineAndRankSimilarity(store,
                                       settled(lists, failed), req.article, n, 0, rev)]
    /\ resp' = NoResp
    /\ UNCHANGED <<store, fresh, prefsBy, ops, cli, view, now>>

\* the same with a store call of the fusion rejecting
SimFuseCatch(failed, self) ==
    /\ req.pc = "fuse"
    /\ ops < MaxSimOps
    /\ ops' = ops + 1
    /\ LET n     == req.limit + req.offset + SimilarAddend
           lists == strategyResults(store, req.article, n, self)
       IN  req' = [req EXCEPT !.pc = "writeback", !.failed = failed, !.self = self,
                       !.fusedOk = FALSE,
                       !.candidates = candidatesOf(lists, failed, req.article),
                       !.results = combineAndRankSimilarity_catch(
                                       settled(lists, failed), n, 0)]
    /\ resp' = NoResp
    /\ UNCHANGED <<store, fresh, prefsBy, cli, view, now>>

\* lines 1277-1345: the write-back, the HyperLogLog update (whose failure
\* is logged and passed over) and the answer
SimWriteBack(hll) ==
    /\ req.pc = "writeback"
    /\ LET st1 == simWriteBack(store, req.article, req.limit, req.offset, req.results)
       IN  store' = IF hll THEN Put(st1, simUniqueKey, "hll") ELSE st1
    /\ resp' = SimResult(req, req.results, FALSE, FALSE, FALSE, FALSE)
    /\ req' = IdleReq
    /\ UNCHANGED <<fresh, prefsBy, ops, cli, view, now>>

\* an await outside the local catches rejects (the miss counters, the load
\* of the target, the EXEC of the write-back): the catch of line 1347
SimFails ==
    /\ req.pc \in {"miss", "writeback"}
    /\ ops < MaxSimOps
    /\ ops' = ops + 1
    /\ req' = [req EXCEPT !.pc = "error", !.failedAt = req.pc]
    /\ resp' = NoResp
    /\ UNCHANGED <<store, fresh, prefsBy, cli, view, now>>

\* the catch of line 1347 with the tombstone never looked for
SimErrorRespond_noTombstone ==
    /\ req.pc = "error"
    /\ resp' = SimResult(req, <<>>, FALSE, TRUE, TRUE, FALSE)
    /\ req' = IdleReq
    /\ UNCHANGED <<store, fresh, prefsBy, ops, cli, view, now>>

\* lines 1350-1375: the tombstone entry if it is there, else an empty list
SimErrorRespond ==
    /\ req.pc = "error"
    /\ LET tk == simFallbackKey(req.article)
       IN  resp' = IF Has(store, tk)
                   THEN SimResult(req, store[tk].results, TRUE, TRUE, TRUE, TRUE)
                   ELSE SimResult(req, <<>>, FALSE, TRUE, TRUE, FALSE)
    /\ req' = IdleReq
    /\ UNCHANGED <<store, fresh, prefsBy, ops, cli, view, now>>

\* lines 1363-1365: the read of the tombstone rejects as well
SimErrorReadFails ==
    /\ req.pc = "error"
    /\ ops < MaxSimOps
    /\ ops' = ops + 1
    /\ resp' = SimResult([req EXCEPT !.pc = "fallback_error"], <<>>, FALSE, TRUE,
                         TRUE, FALSE)
    /\ req' = IdleReq
    /\ UNCHANGED <<store, fresh, prefsBy, cli, view, now>>

\* storeArticle (7-10): an article is ingested
storeArticle(a) ==
    /\ ~Has(store, newsKey(a))
    /\ ops < MaxSimOps
    /\ ops' = ops + 1
    /\ store' = Put(store, newsKey(a), "doc")
    /\ resp' = NoResp
    /\ UNCHANGED <<req, fresh, prefsBy, cli, view, now>>

\* the last-known-good result of an article is put at similar:{id}:fallback.
\* Nothing in the sources writes this key; the step stands for whatever
\* else shares the store and keeps it.
seedTombstone(a) ==
    /\ Has(store, newsKey(a))
    /\ ~Has(store, simFallbackKey(a))
    /\ ops < MaxSimOps
    /\ ops' = ops + 1
    /\ store' = Put(store, simFallbackKey(a),
                    [results |-> Ids(vectorSearchExcluding(store, searchText(a),
                                         SimilarAddend, SimilarThreshold, a))])
    /\ resp' = NoResp
    /\ UNCHANGED <<req, fresh, prefsBy, cli, view, now>>

\* the similar-articles keys of article a that hold a payload
simEntries(st, a) ==
    {k \in DOMAIN st : Len(k) = 4 /\ k[1] = "similar" /\ k[2] = a}

\* a cache entry reaches its time to live (3600 s).  The sidecar is written
\* with every payload of its article and with the same time to live, so it
\* goes after the last of them; the LRU set lives 24 times as long.
SimExpire(k) ==
    /\ Has(store, k)
    /\ \/ Len(k) = 4 /\ k[1] = "similar"
       \/ k[1] = "similar_meta" /\ simEntries(store, k[2]) = {}
       \/ k[1] = "similar_stats"
       \/ k = simLruKey /\ \A a \in SimArticles : simEntries(store, a) = {}
    /\ ops < MaxSimOps
    /\ ops' = ops + 1
    /\ store' = Del(store, {k})
    /\ resp' = NoResp
    /\ UNCHANGED <<req, fresh, prefsBy, cli, view, now>>

NextSimilar ==
    \/ \E a \in SimTargets, page \in SimPages : SimProbe(a, page[1], page[2])
    \/ SimHitRespond
    \/ SimHitFails
    \/ SimHitCountFails
    \/ SimMissLoad
    \/ SimMissCountFails
    \/ SimVector
    \/ SimVectorFails
    \/ \E failed \in SUBSET Strategies, self, rev \in BOOLEAN : SimFuse(failed, self, rev)
    \/ \E failed \in SUBSET Strategies, self \in BOOLEAN : SimFuseCatch(failed, self)
    \/ \E hll \in BOOLEAN : SimWriteBack(hll)
    \/ SimFails
    \/ SimErrorRespond
    \/ SimErrorReadFails
    \/ \E a \in SimArticles : storeArticle(a)
    \/ \E a \in SimTargets : seedTombstone(a)
    \/ \E k \in DOMAIN store : SimExpire(k)

SpecSimilar == Init /\ [][NextSimilar]_vars

----------------------------------------------------------------------------
(* Ingestion, services/newsProcessor.js 67-173 *)

\* if (uniqueArticles.length > 30) of line 139
ClearAbove == 30

\* the clear of line 142 as cacheClearService.js exports it
clearBeforeProcessing_imported(st) == clearAllCacheExceptUser(st, {})

\* lines 141-147: await clearAllCacheExceptUser() inside a try.  The name is
\* bound by line 5 to a property that redisService.js does not export
\* (2400-2429), so the call is a call of undefined: the TypeError is caught
\* at 144 and processing goes on with the store as it was
clearBeforeProcessing(st) == st

\* one run of processNews that fetched count unique articles, a among them:
\* the clear when there are more than 30, then the batches, which store the
\* articles that are not stored yet (processBatch 12-65)
processNews(count, a) ==
    /\ ops < MaxAdminOps
    /\ ops' = ops + 1
    /\ LET st1 == IF count > ClearAbove THEN clearBeforeProcessing(store) ELSE store
       IN  store' = IF Has(st1, newsKey(a)) THEN st1 ELSE Put(st1, newsKey(a), "doc")
    /\ resp' = [kind |-> "ingest", count |-> count, before |-> store]
    /\ UNCHANGED <<req, fresh, prefsBy, cli, view, now>>

\* the store under views, preference updates, ingestion and the admin
\* script, inside the time to live of the metrics (7 and 30 days)
NextFrame ==
    \/ \E a \in Articles, u \in Users \cup {NoUser} : trackArticleMetrics(a, u)
    \/ \E count \in {ClearAbove, ClearAbove + 1}, a \in SimArticles : processNews(count, a)
    \/ \E u \in Users, a \in Articles : markArticleAsRead(u, a)
    \/ \E u \in Users, prefs \in PrefLists : updateUserPreferences(u, prefs)
    \/ \E mode \in {"clear", "force"} : clearCacheExceptUser_main(mode, <<>>)
    \/ \E types \in SpecificTypes : clearCacheExceptUser_main("specific", types)
    \/ \E answer \in Answers : clearCacheExceptUser_answer(answer)
    \/ \E types \in SpecificTypes \cup {<<>>} : clearSpecificCacheTypes_call(types)

SpecFrame == Init /\ [][NextFrame]_vars

----------------------------------------------------------------------------
(* The similar-articles cache when the LRU set is full *)

\* the cache keys of LruKeep earlier requests for a1, one per offset, none
\* of them an offset of SimPages, oldest first
FullLru == [i \in 1..LruKeep |-> simKey("a1", 1, i + 1)]

\* the store after those requests, all within the last hour: their payloads,
\* the sidecar of a1 and the LRU set
FullStore ==
    LET ids == Ids(vectorSearchExcluding([k \in {newsKey(a) : a \in Articles} |-> "doc"],
                       searchText("a1"), SimilarAddend, SimilarThreshold, "a1"))
    IN  [k \in {newsKey(a) : a \in Articles} \cup {indexKey}
               \cup Range(FullLru) \cup {simMetaKey("a1"), simLruKey} |->
            IF k = simLruKey THEN FullLru
            ELSE IF k = simMetaKey("a1")
                 THEN [totalCount |-> Len(ids), page |-> <<1, LruKeep + 1>>]
            ELSE IF k \in Range(FullLru) THEN [results |-> ids, first |-> <<>>]
            ELSE "doc"]

InitLru ==
    /\ store = FullStore
    /\ req = IdleReq
    /\ resp = NoResp
    /\ fresh = {}
    /\ prefsBy = [u \in Users |-> "none"]
    /\ ops = MaxSimOps - MaxLruOps
    /\ cli = NoCli
    /\ view = NoView
    /\ now = 0

\* lines 1293-1316 of another call of findSimilarArticles that is in flight
\* at the same time: its MULTI is executed by the store in one piece, at
\* any point between the steps of the call the model follows
SimWriteBackConcurrent(a, limit, offset) ==
    /\ Has(store, newsKey(a))
    /\ ops < MaxSimOps
    /\ ops' = ops + 1
    /\ store' = simWriteBack(store, a, limit, offset,
                    Ids(vectorSearchExcluding(store, searchText(a),
                            limit + offset + SimilarAddend, SimilarThreshold, a)))
    /\ resp' = NoResp
    /\ UNCHANGED <<req, fresh, prefsBy, cli, view, now>>

NextLru ==
    \/ \E a \in SimTargets, page \in SimPages : SimProbe(a, page[1], page[2])
    \/ SimHitRespond
    \/ SimMissLoad
    \/ SimVector
    \/ \E hll \in BOOLEAN : SimWriteBack(hll)
    \/ \E a \in SimTargets, page \in SimPages :
          SimWriteBackConcurrent(a, page[1], page[2])
    \/ \E a \in SimArticles : storeArticle(a)

SpecLru == InitLru /\ [][NextLru]_vars

----------------------------------------------------------------------------
(* Invalidation of the similar cache of one article, redisService.js
   1430-1500 and newsController.js 408-417 *)

\* the characters of the strings that make up the names of the similar
\* cache keys and the ids of the invalidation; any other string in use is
\* one character long
Chars(s) ==
    CASE s = "similar" -> <<"s", "i", "m", "i", "l", "a", "r">>
      [] s = "a1" -> <<"a", "1">>
      [] s = "a2" -> <<"a", "2">>
      [] s = "a3" -> <<"a", "3">>
      [] OTHER -> <<s>>

RECURSIVE keyName(_)
\* the name of a key as the store holds it: its segments joined by ':'
keyName(key) ==
    IF Len(key) = 1 THEN Chars(Head(key))
    ELSE Chars(Head(key)) \o <<":">> \o keyName(Tail(key))

\* key.includes(articleId) of line 1457 on the name of a cache key:
\* String.prototype.includes, true when the id occurs anywhere in the name
includes(key, a) ==
    LET name == keyName(key)
        id   == Chars(a)
    IN  \E i \in 0..(Len(name) - Len(id)) : SubSeq(name, i + 1, i + Len(id)) = id

\* the ids the admin route is called with: stored articles, the beginning
\* of an id, and an asterisk
ClearIds == SimTargets \cup {"a", "*"}

\* GET /api/admin/clear-similar-cache/:id begins
clearSimilarCache(a) ==
    /\ cli.pc = "off"
    /\ ops < MaxSimOps
    /\ ops' = ops + 1
    /\ cli' = [pc |-> "keys", script |-> "clearSimilarCache", article |-> a]
    /\ resp' = NoResp
    /\ UNCHANGED <<store, req, fresh, prefsBy, view, now>>

\* lines 1436-1441: KEYS similar:{id}:* and the DEL of what it found
SimClearKeys ==
    /\ cli.pc = "keys"
    /\ store' = Del(store, KeysMatching(store, <<"similar", cli.article, "*">>))
    /\ cli' = [cli EXCEPT !.pc = "meta"]
    /\ resp' = NoResp
    /\ UNCHANGED <<req, fresh, prefsBy, ops, view, now>>

\* line 1444: DEL similar_meta:{id} (clearStats and clearBloom are not set
\* by the handler)
SimClearMeta ==
    /\ cli.pc = "meta"
    /\ store' = Del(store, {simMetaKey(cli.article)})
    /\ cli' = [cli EXCEPT !.pc = "lru"]
    /\ resp' = NoResp
    /\ UNCHANGED <<req, fresh, prefsBy, ops, view, now>>

\* lines 1454-1463 and 412-413: the members of the LRU set whose name
\* includes the id are removed, and the handler answers
SimClearLru ==
    /\ cli.pc = "lru"
    /\ store' = IF Has(store, simLruKey)
                THEN Put(store, simLruKey,
                         SelectSeq(store[simLruKey],
                                   LAMBDA k : ~includes(k, cli.article)))
                ELSE store
    /\ resp' = [kind |-> "simclear", article |-> cli.article, status |-> 200,
                error |-> FALSE]
    /\ cli' = NoCli
    /\ UNCHANGED <<req, fresh, prefsBy, ops, view, now>>

\* lines 1495-1498: a store call of clearSimilarArticleCache rejects; the
\* catch returns { error } and the handler answers as after a clear
SimClearFails ==
    /\ cli.pc \in {"keys", "meta", "lru"}
    /\ ops < MaxSimOps
    /\ ops' = ops + 1
    /\ resp' = [kind |-> "simclear", article |-> cli.article, status |-> 200,
                error |-> TRUE]
    /\ cli' = NoCli
    /\ UNCHANGED <<store, req, fresh, prefsBy, view, now>>

\* similar-articles requests and invalidations on one store
NextSimClear ==
    \/ \E a \in SimTargets, page \in SimPages : SimProbe(a, page[1], page[2])
    \/ SimHitRespond
    \/ SimMissLoad
    \/ SimVector
    \/ \E hll \in BOOLEAN : SimWriteBack(hll)
    \/ \E a \in ClearIds : clearSimilarCache(a)
    \/ SimClearKeys
    \/ SimClearMeta
    \/ SimClearLru
    \/ SimClearFails

SpecSimClear == Init /\ [][NextSimClear]_vars

----------------------------------------------------------------------------
(* The preference endpoints, newsController.js 265-343 *)

\* .slice(0, 10) of lines 280 and 328
PrefLimit == 10

\* the elements a client puts into topics: strings, and one number
Topic(v) == [type |-> "string", v |-> v]
NotAString == [type |-> "number", v |-> 7]

\* String.prototype.trim on the topics
trim(v) ==
    CASE v = " AI " -> "AI" [] v = "tech " -> "tech" [] v = "  " -> "" [] OTHER -> v

\* the bodies a client sends: topics of these lists
RawTopics ==
    { <<>>,
      <<NotAString, Topic("  ")>>,
      <<Topic(" AI "), NotAString>>,
      <<Topic("Tech"), Topic("sports")>>,
      <<Topic("AI"), Topic("ai"), Topic("tech ")>>,
      <<Topic("sports"), Topic("sports")>>,
      [i \in 1..(PrefLimit + 1) |-> Topic("t" \o Str(i))] }

\* lines 277-280 and 325-328: filter(string with trim().length > 0),
\* map(trim().toLowerCase()), slice(0, 10)
cleanPreferences(topics) ==
    LET kept == SelectSeq(topics, LAMBDA t : t.type = "string" /\ trim(t.v) # "")
    IN  Take([i \in 1..Len(kept) |-> toLowerCase(trim(kept[i].v))], PrefLimit)

\* lines 282-284 and 330-332: 400 when nothing valid is left
NoValidPreference(u) ==
    /\ ops < MaxOps
    /\ ops' = ops + 1
    /\ resp' = [kind |-> "prefs", status |-> 400, user |-> u]
    /\ UNCHANGED <<store, req, fresh, prefsBy, cli, view, now>>

\* POST /api/user/:userId/preferences (265-295)
storeUserPreferencesHandler(u, topics) ==
    IF cleanPreferences(topics) = <<>> THEN NoValidPreference(u)
    ELSE storeUserPreferences(u, cleanPreferences(topics))

\* PUT /api/user/:userId/preferences (315-343)
updateUserPreferencesHandler(u, topics) ==
    IF cleanPreferences(topics) = <<>> THEN NoValidPreference(u)
    ELSE updateUserPreferences(u, cleanPreferences(topics))

\* the preference endpoints and the reads of a user
NextPrefs ==
    \/ \E u \in Users, topics \in RawTopics : storeUserPreferencesHandler(u, topics)
    \/ \E u \in Users, topics \in RawTopics : updateUserPreferencesHandler(u, topics)
    \/ \E u \in Users, a \in Articles : markArticleAsRead(u, a)

SpecPrefs == Init /\ [][NextPrefs]_vars

----------------------------------------------------------------------------
(* Pagination, utils/pagination.js *)

\* Math.min(100, ...) and || 10 of line 4
PageLimitMax == 100
PageLimitDefault == 10
\* the largest totalCount a handler passes
MaxTotal == 5

\* what parseInt makes of a query value: a number, or NaN
Num(n) == [nan |-> FALSE, n |-> n]
NaN == [nan |-> TRUE, n |-> 0]

\* parseInt(q) || d: NaN and 0 are falsy
orElse(q, d) == IF q.nan \/ q.n = 0 THEN d ELSE q.n

Max(a, b) == IF a >= b THEN a ELSE b
Min(a, b) == IF a <= b THEN a ELSE b

\* getPaginationParams(req) (2-8)
getPaginationParams(pageQ, limitQ) ==
    LET page  == Max(1, orElse(pageQ, 1))
        limit == Min(PageLimitMax, Max(1, orElse(limitQ, PageLimitDefault)))
    IN  [page |-> page, limit |-> limit, offset |-> (page - 1) * limit]

\* createPaginatedResponse(articles, totalCount, page, limit, req) (11-43),
\* its pagination object without the links; Math.ceil(totalCount / limit)
createPaginatedResponse(totalCount, page, limit) ==
    LET totalPages == (totalCount + limit - 1) \div limit
    IN  [kind |-> "page", currentPage |-> page, totalPages |-> totalPages,
         totalCount |-> totalCount, limit |-> limit,
         hasNext |-> page < totalPages, hasPrev |-> page > 1]

\* the page and limit query values of the requests
PageQueries == {NaN, Num(-1), Num(0), Num(1), Num(2), Num(3), Num(7)}
LimitQueries == {NaN, Num(-5), Num(0), Num(1), Num(2), Num(3), Num(100), Num(250)}

\* a paginated request has come in and its handler has its total
InitPage ==
    /\ store = [k \in {newsKey(a) : a \in Articles} \cup {indexKey} |-> "doc"]
    /\ \E pageQ \in PageQueries, limitQ \in LimitQueries, total \in 0..MaxTotal :
          req = [pc |-> "paginate", page |-> pageQ, limit |-> limitQ, total |-> total]
    /\ resp = NoResp
    /\ fresh = {}
    /\ prefsBy = [u \in Users |-> "none"]
    /\ ops = 0
    /\ cli = NoCli
    /\ view = NoView
    /\ now = 0

\* the handler builds its response (newsController.js 40-50 and alike)
Paginate ==
    /\ req.pc = "paginate"
    /\ LET params == getPaginationParams(req.page, req.limit)
       IN  resp' = createPaginatedResponse(req.total, params.page, params.limit)
    /\ req' = IdleReq
    /\ UNCHANGED <<store, fresh, prefsBy, ops, cli, view, now>>

SpecPage == InitPage /\ [][Paginate]_vars

----------------------------------------------------------------------------
(* Trending articles: redisService.js 2357-2398, newsController.js 455-469 *)

\* || 10 of newsController.js 457
TrendingLimitDefault == 10

\* the limit query values of GET /api/news/trending: absent, or in the
\* range the list endpoints accept
TrendingLimitQueries == {NaN, Num(1), Num(2), Num(3)}

\* the orders in which KEYS news:* can list the stored articles
articleKeys(st) ==
    LET ids == {a \in SimArticles : Has(st, newsKey(a))}
    IN  {s \in [1..Cardinality(ids) -> ids] :
            \A i, j \in 1..Cardinality(ids) : i # j => s[i] # s[j]}

\* every article is stored; no view has been recorded
InitTrending ==
    /\ store = [k \in {newsKey(a) : a \in SimArticles} \cup {indexKey} |-> "doc"]
    /\ req = IdleReq
    /\ resp = NoResp
    /\ fresh = {}
    /\ prefsBy = [u \in Users |-> "none"]
    /\ ops = 0
    /\ cli = NoCli
    /\ view = NoView
    /\ now = 0

\* the body of the loop without the filter of line 2376
trendingPush_unfiltered(found, a, todayViews, article) ==
    IF article THEN Append(found, [id |-> a, score |-> todayViews]) ELSE found

\* lines 2376-2386: if (todayViews > 0) { if (article) push }
trendingPush(found, a, todayViews, article) ==
    IF todayViews > 0 /\ article
    THEN Append(found, [id |-> a, score |-> todayViews])
    ELSE found

\* getTrendingArticlesHandler up to the KEYS of line 2363
getTrendingArticlesHandler(limitQ) ==
    /\ req.pc = "idle"
    /\ \E keys \in articleKeys(store) :
          req' = [pc |-> "trending", limit |-> orElse(limitQ, TrendingLimitDefault),
                  keys |-> keys, found |-> <<>>]
    /\ resp' = NoResp
    /\ UNCHANGED <<store, fresh, prefsBy, ops, cli, view, now>>

\* one pass of the loop 2366-2387: HGET of today's views, JSON.GET
TrendingScan ==
    /\ req.pc = "trending"
    /\ req.keys # <<>>
    /\ LET a == Head(req.keys)
       IN  req' = [req EXCEPT !.keys = Tail(req.keys),
                              !.found = trendingPush(req.found, a,
                                  Count(store, <<"article_daily_views", a, Today>>),
                                  Has(store, newsKey(a)))]
    /\ resp' = NoResp
    /\ UNCHANGED <<store, fresh, prefsBy, ops, cli, view, now>>

\* lines 2390-2392 and the response of 460-464
TrendingRespond ==
    /\ req.pc = "trending"
    /\ req.keys = <<>>
    /\ resp' = [kind |-> "trending", limit |-> req.limit, failed |-> FALSE,
                trendingArticles |-> Slice(SortDesc(req.found), 0, req.limit)]
    /\ req' = IdleReq
    /\ UNCHANGED <<store, fresh, prefsBy, ops, cli, view, now>>

\* lines 2394-2397: a store call rejects, the catch returns []
TrendingFails ==
    /\ req.pc = "trending"
    /\ resp' = [kind |-> "trending", limit |-> req.limit, failed |-> TRUE,
                trendingArticles |-> <<>>]
    /\ req' = IdleReq
    /\ UNCHANGED <<store, fresh, prefsBy, ops, cli, view, now>>

\* a view recorded while, or between, trending requests
TrendingView(a) ==
    /\ ops < MaxAdminOps
    /\ ops' = ops + 1
    /\ store' = tracked(store, a, NoUser)
    /\ resp' = NoResp
    /\ UNCHANGED <<req, fresh, prefsBy, cli, view, now>>

NextTrending ==
    \/ \E limitQ \in TrendingLimitQueries : getTrendingArticlesHandler(limitQ)
    \/ TrendingScan
    \/ TrendingRespond
    \/ TrendingFails
    \/ \E a \in SimArticles : TrendingView(a)

SpecTrending == InitTrending /\ [][NextTrending]_vars

----------------------------------------------------------------------------
(* Search dispatch: redisService.js 1022-1064, 1989-2153, newsController.js 82-105 *)

\* LIMIT { from: 0, size: 1000 } of lines 2083 and 2088
IntersectCap == 1000

\* the documents a word matches in title, description, content, summary or
\* keywords
WordMatches(w) ==
    CASE w = "rocket" -> {"a1", "a2"}
      [] w = "Technology" -> {"a2", "a3"}
      [] OTHER -> {}

Source(a) == IF a = "a1" THEN "bbc" ELSE "cnn"

\* the values of the q, sentiment, source and topic query parameters; ""
\* is an absent parameter
SearchWords == {"", "rocket"}
SearchSentiments == {"", "positive"}
SearchSources == {"", "cnn"}
SearchTopics == {"", "Technology"}
SearchPages == {1, 2}

\* FT.SEARCH idx:news with the query parts joined by AND, SORTBY publishedAt
\* DESC, on the stored articles
ftSearch(st, q, sentiment, source) ==
    SelectIds(SimCorpus(st),
        {a \in SimArticles :
            /\ q # "" => a \in WordMatches(q)
            /\ sentiment # "" => Sentiment(a) = sentiment
            /\ source # "" => Source(a) = source})

\* the intersection of 2094-2099 taken as the search ids alone
intersectionIds_searchOnly(searchIds, topicIds) == searchIds

\* lines 2090-2099: the ids of the search results that are topic results
intersectionIds(searchIds, topicIds) == {id \in searchIds : id \in topicIds}

\* lines 2101-2114: filter, sort by publishedAt, paginate
intersectionResult(searchDocs, topicDocs, limit, offset) ==
    LET ids  == intersectionIds(Range(searchDocs), Range(topicDocs))
        docs == SelectIds(searchDocs, ids)
    IN  [articles |-> Slice(docs, offset, offset + limit), totalCount |-> Len(docs)]

SearchResp(r, result, searchIds, topicIds, failed) ==
    [kind |-> "search", q |-> r.q, sentiment |-> r.sentiment, source |-> r.source,
     topic |-> r.topic, articles |-> result.articles,
     totalCount |-> result.totalCount, searchIds |-> searchIds,
     topicIds |-> topicIds, failed |-> failed]

\* searchNewsHandler and the dispatch of searchNews (2123-2153); the cases
\* with one search answer here, the intersection goes on
searchNewsHandler(q, sentiment, source, topic, page, limit) ==
    /\ req.pc = "idle"
    /\ LET params == getPaginationParams(Num(page), Num(limit))
           r == [pc |-> "intersect", q |-> q, sentiment |-> sentiment,
                 source |-> source, topic |-> topic, limit |-> params.limit,
                 offset |-> params.offset, searchDocs |-> <<>>]
           hasSearchFilters == q # "" \/ sentiment # "" \/ source # ""
           docs == IF topic # "" THEN ftSearch(store, topic, "", "")
                   ELSE IF hasSearchFilters THEN ftSearch(store, q, sentiment, source)
                   ELSE SimCorpus(store)
       IN  IF topic # "" /\ hasSearchFilters
           THEN req' = r /\ resp' = NoResp
           ELSE /\ req' = IdleReq
                /\ resp' = SearchResp(r,
                      [articles |-> Slice(docs, params.offset, params.offset + params.limit),
                       totalCount |-> Len(docs)], Range(docs), Range(docs), FALSE)
    /\ UNCHANGED <<store, fresh, prefsBy, ops, cli, view, now>>

\* the FT.SEARCH of 2078-2085 has answered
IntersectSearch ==
    /\ req.pc = "intersect"
    /\ req' = [req EXCEPT !.pc = "topic",
                  !.searchDocs = Take(ftSearch(store, req.q, req.sentiment, req.source),
                                      IntersectCap)]
    /\ resp' = NoResp
    /\ UNCHANGED <<store, fresh, prefsBy, ops, cli, view, now>>

\* searchArticlesByTopic(topic, 1000, 0) has answered; lines 2090-2119
IntersectTopic ==
    /\ req.pc = "topic"
    /\ LET topicDocs == Take(ftSearch(store, req.topic, "", ""), IntersectCap)
       IN  resp' = SearchResp(req,
                      intersectionResult(req.searchDocs, topicDocs, req.limit, req.offset),
                      Range(req.searchDocs), Range(topicDocs), FALSE)
    /\ req' = IdleReq
    /\ UNCHANGED <<store, fresh, prefsBy, ops, cli, view, now>>

\* a search of searchArticlesByTopic rejects: its catch (1060-1063) returns
\* no articles, and the intersection is taken with that
IntersectTopicFails ==
    /\ req.pc = "topic"
    /\ resp' = SearchResp(req,
                  intersectionResult(req.searchDocs, <<>>, req.limit, req.offset),
                  Range(req.searchDocs), {}, TRUE)
    /\ req' = IdleReq
    /\ UNCHANGED <<store, fresh, prefsBy, ops, cli, view, now>>

\* the FT.SEARCH of 2078 rejects: the catch of 2116-2119
IntersectFails ==
    /\ req.pc = "intersect"
    /\ resp' = SearchResp(req, [articles |-> <<>>, totalCount |-> 0], {}, {}, TRUE)
    /\ req' = IdleReq
    /\ UNCHANGED <<store, fresh, prefsBy, ops, cli, view, now>>

\* clearNews.js: an article is deleted
deleteArticle(a) ==
    /\ Has(store, newsKey(a))
    /\ ops < MaxSimOps
    /\ ops' = ops + 1
    /\ store' = Del(store, {newsKey(a)})
    /\ resp' = NoResp
    /\ UNCHANGED <<req, fresh, prefsBy, cli, view, now>>

NextSearch ==
    \/ \E q \in SearchWords, sentiment \in SearchSentiments, source \in SearchSources,
          topic \in SearchTopics, page \in SearchPages, limit \in Limits :
          searchNewsHandler(q, sentiment, source, topic, page, limit)
    \/ IntersectSearch
    \/ IntersectTopic
    \/ IntersectTopicFails
    \/ IntersectFails
    \/ \E a \in SimArticles : storeArticle(a)
    \/ \E a \in SimArticles : deleteArticle(a)

SpecSearch == Init /\ [][NextSearch]_vars

----------------------------------------------------------------------------
(* The feed, its cache and the read history without store errors *)

\* preference writes, reads and feed requests; nothing expires and no store
\* call rejects
NextFeedHit ==
    \/ \E u \in Users, limit \in Limits : FeedProbe(u, limit)
    \/ FeedHitRespond
    \/ FeedMissLoad
    \/ FeedNoPrefs
    \/ FeedSearch
    \/ FeedTopUp
    \/ FeedWriteBack
    \/ \E u \in Users, prefs \in PrefLists : storeUserPreferences(u, prefs)
    \/ \E u \in Users, a \in Articles : markArticleAsRead(u, a)

SpecFeedHit == Init /\ [][NextFeedHit]_vars


----------------------------------------------------------------------------
(* The rate limiters of the Gemini calls, services/geminiService.js 10-67
   and 236-258, under the batches of services/newsProcessor.js 12-65 *)

\* const MAX_CALLS_PER_MINUTE = 20
MAX_CALLS_PER_MINUTE == 20

\* const BATCH_SIZE = 5
BATCH_SIZE == 5

\* the batches of one run of processNews that the model follows
MaxBatches == 9

\* the counters of lines 11-16, and the calls of the running batch by where
\* they stand: articles not looked at yet (pending), calls inside
\* delay(60000) (Wait) and calls inside delay(RATE_LIMIT_DELAY) (Delay)
NewGemini ==
    [pc |-> "batch", summaryCallCount |-> 0, summary2CallCount |-> 0,
     embeddingCallCount |-> 0, currentSummaryKey |-> 1,
     pending |-> 0, sumWait |-> 0, sumDelay |-> 0, embWait |-> 0, embDelay |-> 0]

\* the calls issued on each key since the counters were last set to 0
NoCalls == [summary1 |-> 0, summary2 |-> 0, embedding |-> 0]

InitGemini ==
    /\ store = [k \in {newsKey(a) : a \in Articles} \cup {indexKey} |-> "doc"]
    /\ req = NewGemini
    /\ resp = [kind |-> "reset", sinceReset |-> NoCalls]
    /\ fresh = {}
    /\ prefsBy = [u \in Users |-> "none"]
    /\ ops = 0
    /\ cli = NoCli
    /\ view = NoView
    /\ now = 0

\* lines 25-40, up to the first await: the counter of the current key is
\* tested, the key is switched when only the other one has room, and the
\* call waits a minute when neither has
rateLimitedSummaryCall(g) ==
    LET currentCount == IF g.currentSummaryKey = 1 THEN g.summaryCallCount
                        ELSE g.summary2CallCount
    IN  IF currentCount >= MAX_CALLS_PER_MINUTE
        THEN IF g.currentSummaryKey = 1 /\ g.summary2CallCount < MAX_CALLS_PER_MINUTE
             THEN [g EXCEPT !.currentSummaryKey = 2, !.sumDelay = @ + 1]
             ELSE IF g.currentSummaryKey = 2 /\ g.summaryCallCount < MAX_CALLS_PER_MINUTE
                  THEN [g EXCEPT !.currentSummaryKey = 1, !.sumDelay = @ + 1]
                  ELSE [g EXCEPT !.sumWait = @ + 1]
        ELSE [g EXCEPT !.sumDelay = @ + 1]

\* lines 58-60, up to the first await
rateLimitedEmbeddingCall(g) ==
    IF g.embeddingCallCount >= MAX_CALLS_PER_MINUTE
    THEN [g EXCEPT !.embWait = @ + 1]
    ELSE [g EXCEPT !.embDelay = @ + 1]

\* processBatch 12-16: the next batch starts when the one before is done;
\* count of its articles are not stored yet, the others are skipped at 21-24
processBatch(count) ==
    /\ req.pc = "batch"
    /\ req.pending + req.sumWait + req.sumDelay + req.embWait + req.embDelay = 0
    /\ ops < MaxBatches
    /\ ops' = ops + 1
    /\ req' = [req EXCEPT !.pending = count]
    /\ resp' = [kind |-> "batch", sinceReset |-> resp.sinceReset]
    /\ UNCHANGED <<store, fresh, prefsBy, cli, view, now>>

\* processBatch 29-32 for one article: summarizeAndAnalyze and
\* generateEmbedding are called one after the other, each runs to the first
\* await of its rate limiter
processArticle ==
    /\ req.pc = "batch"
    /\ req.pending > 0
    /\ req' = rateLimitedEmbeddingCall(
                  rateLimitedSummaryCall([req EXCEPT !.pending = @ - 1]))
    /\ resp' = [kind |-> "started", sinceReset |-> resp.sinceReset]
    /\ UNCHANGED <<store, fresh, prefsBy, ops, cli, view, now>>

\* lines 41-43: the minute of a summary call is over, both counters go to 0
SummaryWaited ==
    /\ req.pc = "batch"
    /\ req.sumWait > 0
    /\ req' = [req EXCEPT !.sumWait = @ - 1, !.sumDelay = @ + 1,
                          !.summaryCallCount = 0, !.summary2CallCount = 0]
    /\ resp' = [kind |-> "reset",
                sinceReset |-> [resp.sinceReset EXCEPT !.summary1 = 0,
                                                       !.summary2 = 0]]
    /\ UNCHANGED <<store, fresh, prefsBy, ops, cli, view, now>>

\* lines 47-56 and 90: the second of a summary call is over; the counter of
\* the key that is current now is bumped and the call goes out on that key
SummaryCall ==
    /\ req.pc = "batch"
    /\ req.sumDelay > 0
    /\ req' = IF req.currentSummaryKey = 1
              THEN [req EXCEPT !.sumDelay = @ - 1, !.summaryCallCount = @ + 1]
              ELSE [req EXCEPT !.sumDelay = @ - 1, !.summary2CallCount = @ + 1]
    /\ resp' = [kind |-> "gemini", api |-> "summary", key |-> req.currentSummaryKey,
                sinceReset |-> IF req.currentSummaryKey = 1
                               THEN [resp.sinceReset EXCEPT !.summary1 = @ + 1]
                               ELSE [resp.sinceReset EXCEPT !.summary2 = @ + 1]]
    /\ UNCHANGED <<store, fresh, prefsBy, ops, cli, view, now>>

\* lines 60-62: the minute of an embedding call is over
EmbeddingWaited ==
    /\ req.pc = "batch"
    /\ req.embWait > 0
    /\ req' = [req EXCEPT !.embWait = @ - 1, !.embDelay = @ + 1,
                          !.embeddingCallCount = 0]
    /\ resp' = [kind |-> "reset",
                sinceReset |-> [resp.sinceReset EXCEPT !.embedding = 0]]
    /\ UNCHANGED <<store, fresh, prefsBy, ops, cli, view, now>>

\* lines 64-66: the second of an embedding call is over
EmbeddingCall ==
    /\ req.pc = "batch"
    /\ req.embDelay > 0
    /\ req' = [req EXCEPT !.embDelay = @ - 1, !.embeddingCallCount = @ + 1]
    /\ resp' = [kind |-> "gemini", api |-> "embedding", key |-> 1,
                sinceReset |-> [resp.sinceReset EXCEPT !.embedding = @ + 1]]
    /\ UNCHANGED <<store, fresh, prefsBy, ops, cli, view, now>>

\* lines 242-247: the callback of the interval started by processNews (71)
\* runs between any two steps
RateLimitReset ==
    /\ req.pc = "batch"
    /\ req' = [req EXCEPT !.summaryCallCount = 0, !.summary2CallCount = 0,
                          !.embeddingCallCount = 0]
    /\ resp' = [kind |-> "reset", sinceReset |-> NoCalls]
    /\ UNCHANGED <<store, fresh, prefsBy, ops, cli, view, now>>

NextGemini ==
    \/ \E count \in 1..BATCH_SIZE : processBatch(count)
    \/ processArticle
    \/ SummaryWaited
    \/ SummaryCall
    \/ EmbeddingWaited
    \/ EmbeddingCall
    \/ RateLimitReset

SpecGemini == InitGemini /\ [][NextGemini]_vars

----------------------------------------------------------------------------
(* Preference invalidation (P4) *)

\* C1: after a preference update for U has returned (one made while no
\* request was in flight), the next personalized feed request for U is
\* recomputed: its response has cached false.
C1_NextFeedRecomputed ==
    (resp.kind = "feed" /\ resp.first /\ ~resp.raced) => ~resp.cached

\* C2: after updateUserPreferences returned, no later feed read of U, for
\* any (limit, offset), is served from a cache entry computed under a
\* preference list other than the current one.
C2_NoStaleFeedEntry ==
    (resp.kind = "feed" /\ resp.cached /\ ~resp.raced
        /\ prefsBy[resp.user] = "update")
    => resp.under = getUserPreferences(store, resp.user)

\* C3: when updateUserPreferences(U, _) returns, every feed cache key, every
\* search cache key and the preference-version key of U that existed before
\* the call is gone from the store.
C3_UpdateDeletesKeys ==
    resp.kind = "update" => resp.before \cap DOMAIN store = {}

\* C4: after a preference update for U has returned, a personalized search
\* of U never returns a cached result computed under U's earlier
\* preferences.
C4_NoStaleCachedSearch ==
    (resp.kind = "search" /\ resp.cached /\ ~resp.raced
        /\ prefsBy[resp.user] = "update")
    => resp.under = getUserPreferences(store, resp.user)

----------------------------------------------------------------------------
(* Read filtering (P3) *)

\* C5 as stated: no article of a feed response is in listRead(U) when the
\* response is produced.
C5_NoReadArticleAtResponse ==
    resp.kind = "feed"
    => Range(resp.articles) \cap getUserReadArticles(store, resp.user) = {}

\* C5: an article of a feed response (hit, recomputed miss with its general
\* top-up, no-preferences fallback, error fallback) is in listRead(U) when
\* the response is produced only if it was marked read while the request
\* was in flight.
C5_ReadArticleOnlyIfViewedInFlight ==
    resp.kind = "feed"
    => (Range(resp.articles) \cap getUserReadArticles(store, resp.user))
           \subseteq resp.viewed

\* a feed response whose read-history filter removed an article, with
\* articles left to return and no view recorded while it was in flight
C5_Witness ==
    /\ resp.kind = "feed"
    /\ resp.filteredReadCount > 0
    /\ resp.articles # <<>>
    /\ resp.viewed = {}
    /\ getUserReadArticles(store, resp.user) # {}

\* C6: a version-valid hit from which the read-history filter removed more
\* than 0.3 * limit articles is not served from cache.
C6_HitRefreshThreshold ==
    (resp.kind = "feed" /\ resp.cached)
    => resp.filteredReadCount * 10 <= resp.limit * RefreshTenths

----------------------------------------------------------------------------
(* The admin clears (P9) *)

UserKeys(st) == {k \in DOMAIN st : Head(k) = "user"}

\* C7: clearAllCacheExceptUser deletes no key matching user:*: every such
\* key present before the call is present with the same value after it,
\* also when some pattern deletions fail.
C7_ExceptUserPreservesUserKeys ==
    (resp.kind = "clear" /\ resp.fn = "clearAllCacheExceptUser")
    => \A k \in UserKeys(resp.before) :
           k \in DOMAIN store /\ store[k] = resp.before[k]

\* a run of clearAllCacheExceptUser that found user keys, cleared other
\* keys and met an error on one of its patterns
C7_Witness ==
    /\ resp.kind = "clear"
    /\ resp.fn = "clearAllCacheExceptUser"
    /\ resp.metrics.preservedUserData > 1
    /\ resp.metrics.totalKeysCleared > 0
    /\ resp.metrics.errors # {}

\* C8: the user-data-preserving clear (clearAllCacheExceptUser or
\* clearSpecificCacheTypes, run by the clearCacheExceptUser script) deletes
\* no key matching user_article_views:*.
C8_ExceptUserPreservesViewHistory ==
    (resp.kind = "clear" /\ resp.entry = "clearCacheExceptUser.js")
    => \A k \in DOMAIN resp.before :
           Head(k) = "user_article_views" => k \in DOMAIN store

\* C9: the standard clear of the clearCache script (default and --force,
\* clearAllCache) leaves the article documents news:* and the user data
\* (preferences, read history) unchanged.
C9_StandardClearKeepsData ==
    (resp.kind = "clear" /\ resp.fn = "clearAllCache" /\ resp.entry = "clearCache.js")
    => \A k \in DOMAIN resp.before :
           Head(k) \in {"news", "user"}
           => k \in DOMAIN store /\ store[k] = resp.before[k]

\* C10: through every entry point, the nuclear clear deletes a key or drops
\* an index only if the confirmation token given equals NUCLEAR.
C10_NuclearNeedsToken ==
    (resp.kind = "clear" /\ resp.fn = "clearEverythingInRedis" /\ store # resp.before)
    => resp.token = "NUCLEAR"

\* C11: the CLI clear action (clearAllCache) deletes a key only if the force
\* flag was given or the operator answered the y/N question with y or yes.
C11_ClearNeedsForceOrYes ==
    (resp.kind = "clear" /\ resp.fn = "clearAllCache" /\ store # resp.before)
    => (resp.mode = "force" \/ Yes(resp.token))

----------------------------------------------------------------------------
(* The article view (S1) *)

\* C12: when GET /api/news/:id for a stored article, sent with a user id,
\* has returned 200, listRead(user) includes the article.
C12_ViewedArticleIsRead ==
    (resp.kind = "view" /\ resp.status = 200 /\ resp.user # NoUser)
    => resp.article \in getUserReadArticles(store, resp.user)

\* C13: a feed read of U that began after an article view of U and the work
\* it left running had ended is not served from a feed cache entry written
\* before that view.
C13_ViewInvalidatesFeedCache ==
    (resp.kind = "feed" /\ resp.cached /\ resp.afterView)
    => feedCacheKey(resp.user, resp.limit, resp.offset) \notin view.before

----------------------------------------------------------------------------
(* Errors in the personalized feed *)

\* C16: a store error while the cache entry of a feed miss is written is
\* swallowed: the response is the page the request had computed, as if the
\* write had succeeded (not a fallback).
C16_WriteErrorSwallowed ==
    (resp.kind = "feed" /\ resp.failedAt = "writeback")
    => (resp.articles = resp.computed /\ ~resp.fallback)

\* the newest stored articles the user has not read, as the error fallback
\* pages them
NewestUnread(st, u, limit, offset) ==
    LET general == getAllArticles(st, limit + offset + ErrorAddend, 0)
    IN  Slice(SelectIds(general, Range(general) \ getUserReadArticles(st, u)),
              offset, offset + limit)

\* C18 as stated: a feed request whose build failed with an error returns
\* the general newest articles, read-filtered, marked fallback.
C18_ErrorGivesGeneralFallback ==
    (resp.kind = "feed" /\ resp.failedAt # "none")
    => /\ resp.fallback
       /\ resp.articles = NewestUnread(store, resp.user, resp.limit, resp.offset)

\* C18: a feed request whose build failed with an error still answers, not
\* from cache: with the general newest articles, read-filtered, marked
\* fallback; or, when the reads of that fallback fail too, with an empty
\* list that is not marked fallback.
C18_ErrorGivesFallbackOrEmpty ==
    (resp.kind = "feed" /\ resp.failedAt # "none")
    => /\ ~resp.cached
       /\ IF resp.path = "fallback_error"
          THEN resp.articles = <<>> /\ ~resp.fallback
          ELSE /\ resp.fallback
               /\ resp.articles
                      = NewestUnread(store, resp.user, resp.limit, resp.offset)

\* an error fallback that answered with an article after the read-history
\* filter had removed one
C18_Witness ==
    /\ resp.kind = "feed"
    /\ resp.failedAt # "none"
    /\ resp.fallback
    /\ resp.articles # <<>>
    /\ resp.filteredReadCount > 0

----------------------------------------------------------------------------
(* Similar articles *)

\* C14: a similar-articles request that meets no error answers cached false
\* when the store holds no payload for its (article, limit, offset); when
\* the store holds the payload an earlier miss wrote, not yet expired, it
\* answers cached true with the articles, in the order, that miss returned.
C14_SecondRequestCached ==
    (resp.kind = "similar" /\ resp.failedAt = "none" /\ ~resp.probeFailed)
    => /\ ~resp.hadEntry => ~resp.cached
       /\ resp.hadEntry => (resp.cached /\ resp.articles = resp.first)

\* a hit that returns two articles although a recomputation would return
\* other ones
C14_Witness ==
    /\ resp.kind = "similar"
    /\ resp.cached
    /\ resp.hadEntry
    /\ Len(resp.articles) = 2
    /\ resp.all # Ids(vectorSearchExcluding(store, searchText(resp.article),
                         resp.limit + resp.offset + SimilarAddend, SimilarThreshold,
                         resp.article))

\* C15 as stated: a request whose pipeline failed as a whole returns the
\* tombstone entry, marked cached and fallback, if the store holds it, and
\* otherwise an empty list with error populated.
C15_TombstoneIfExists ==
    (resp.kind = "similar" /\ resp.failedAt # "none")
    => IF Has(store, simFallbackKey(resp.article))
       THEN /\ resp.cached /\ resp.fallback
            /\ resp.articles = Slice(store[simFallbackKey(resp.article)].results,
                                     resp.offset, resp.offset + resp.limit)
       ELSE resp.articles = <<>> /\ resp.error

\* C15: a request whose pipeline failed as a whole answers with error
\* populated: the tombstone entry, marked cached and fallback, if the store
\* holds it and the read of it succeeds, and otherwise an empty list that
\* is not marked cached.
C15_TombstoneIfReadable ==
    (resp.kind = "similar" /\ resp.failedAt # "none")
    => /\ resp.error
       /\ IF Has(store, simFallbackKey(resp.article)) /\ resp.path # "fallback_error"
          THEN /\ resp.cached /\ resp.fallback
               /\ resp.articles = Slice(store[simFallbackKey(resp.article)].results,
                                        resp.offset, resp.offset + resp.limit)
          ELSE resp.articles = <<>> /\ ~resp.cached

\* a failed request answered from the tombstone with an article
C15_Witness ==
    /\ resp.kind = "similar"
    /\ resp.failedAt # "none"
    /\ resp.tombstone
    /\ resp.articles # <<>>

\* C17: when the vector search failed and the fusion's own store calls
\* succeeded, the request answers without error whatever strategies met an
\* error, and its result holds exactly the articles the other strategies
\* returned.
C17_FusionToleratesStrategyFailures ==
    (resp.kind = "similar" /\ resp.method = "text" /\ resp.fusedOk
        /\ resp.failedAt = "none" /\ ~resp.cached)
    => /\ ~resp.error
       /\ Range(resp.all) = resp.candidates

\* a fused answer with an article, built while some strategy had failed
C17_Witness ==
    /\ resp.kind = "similar"
    /\ resp.method = "text"
    /\ resp.fusedOk
    /\ resp.failedAt = "none"
    /\ resp.failed # {}
    /\ resp.articles # <<>>

\* C19: no similar-articles response for article A holds A, nor does the
\* list the response is a page of: from the vector search, from the fusion,
\* from the fusion's catch, from a cache hit.
C19_ExcludesSelf ==
    resp.kind = "similar" => resp.article \notin Range(resp.all)

\* a fused answer with an article, where the category strategy had
\* returned the target itself
C19_Witness ==
    /\ resp.kind = "similar"
    /\ resp.method = "text"
    /\ resp.self
    /\ "category" \notin resp.failed
    /\ resp.articles # <<>>

\* C20: the store never holds more similar:{id}:{limit}:{offset} entries
\* than the LruKeep most recently written ones.
C20_CachePopulationCapped ==
    Cardinality({k \in DOMAIN store : Len(k) = 4 /\ k[1] = "similar"}) <= LruKeep

----------------------------------------------------------------------------
(* The LRU set of the similar cache *)

\* the payload keys of the similar cache that a step wrote
simWritten(st, st2) ==
    {k \in DOMAIN st2 : Len(k) = 4 /\ k[1] = "similar"
                         /\ (k \notin DOMAIN st \/ st2[k] # st[k])}

\* C21: after every write-back of the similar cache, whichever of the
\* concurrent calls it belongs to, the LRU set holds at most 1000 keys, the
\* key just written is its most recent member, and the other members are
\* the most recent of the keys that were there (a set that is not full
\* after the step lost none).
C21_LruKeepsMostRecent ==
    [][(Has(store, simLruKey) /\ Has(store', simLruKey)
        /\ (store'[simLruKey] # store[simLruKey] \/ simWritten(store, store') # {}))
       => LET old  == store[simLruKey]
              new  == store'[simLruKey]
              rest == SelectSeq(old, LAMBDA k : k # store'[simLruKey][Len(store'[simLruKey])])
          IN  /\ Len(new) <= LruKeep
              /\ Len(new) > 0
              /\ simWritten(store, store') \subseteq {new[Len(new)]}
              /\ Len(new) - 1 <= Len(rest)
              /\ Len(new) < LruKeep => Len(rest) = Len(new) - 1
              /\ SubSeq(new, 1, Len(new) - 1)
                    = SubSeq(rest, Len(rest) - Len(new) + 2, Len(rest))]_vars

\* two write-backs of concurrent calls reached the full set, the second one
\* answering its request: the two oldest keys left it
C21_Witness ==
    /\ resp.kind = "similar" /\ resp.path = "writeback"
    /\ Len(store[simLruKey]) = LruKeep
    /\ store[simLruKey][LruKeep] = simKey(resp.article, resp.limit, resp.offset)
    /\ store[simLruKey][LruKeep - 1] \notin Range(FullLru)
    /\ FullLru[1] \notin Range(store[simLruKey])
    /\ FullLru[2] \notin Range(store[simLruKey])

----------------------------------------------------------------------------
(* The time to live of the read history *)

\* user u read article a less than 7200 s ago: the per-entry key SETEX
\* wrote at the read is still there
readRecently(u, a) ==
    Has(store, readKey(u, a)) /\ now - store[readKey(u, a)].ts < ReadTtl

\* C22: read records expire per entry: an article is treated as read by a
\* user (it is in the user's read list, and a feed computed now leaves it
\* out) only if the user read it less than 7200 s ago.
C22_ReadExpiresPerEntry ==
    /\ \A u \in Users, a \in Articles :
          a \in getUserReadArticles(store, u) => readRecently(u, a)
    /\ (resp.kind = "feed" /\ resp.path = "noprefs")
          => \A a \in Range(Take(Newest, resp.limit)) :
                a \notin Range(resp.articles) => readRecently(resp.user, a)

----------------------------------------------------------------------------
(* Metrics monotonicity (P8) *)

\* C23: of two successive view recordings of one article, the second
\* reports a totalViews and a dailyViews (of the same day) that are not
\* below those the first reported.
C23_ReportsNonDecreasing ==
    [][(resp.kind = "metrics" /\ resp'.kind = "metrics"
        /\ resp'.article = resp.article)
       => /\ resp'.totalViews >= resp.totalViews
          /\ resp'.dailyViews >= resp.dailyViews]_vars

----------------------------------------------------------------------------
(* Who wipes the article metrics *)

\* the keys of the article metrics (redisService.js 2162-2167, 2190)
MetricKey(k) ==
    Head(k) \in {"article_views", "article_unique_views", "article_user_views",
                 "article_daily_views", "article_engagement",
                 "article_last_viewed", "user_article_views"}

\* the step removed the metric key k or took its value back
MetricLost(k) ==
    \/ k \notin DOMAIN store'
    \/ Head(k) \in {"article_views", "article_daily_views"}
         /\ store'[k] < store[k]
    \/ Head(k) = "article_engagement"
         /\ Len(store'[k]) < Len(store[k])
    \/ Head(k) \in {"article_unique_views", "article_user_views", "user_article_views"}
         /\ ~(store[k] \subseteq store'[k])

----------------------------------------------------------------------------
(* The clear of named types *)

\* the keys of the store before the clear that the clear deleted or changed
touched(before, after) ==
    {k \in DOMAIN before : k \notin DOMAIN after \/ after[k] # before[k]}

----------------------------------------------------------------------------
(* Errors inside a clear *)

\* the patterns the clear function of a report went through
reportPatterns(r) ==
    IF r.fn = "clearAllCacheExceptUser" THEN cachePatterns ELSE specificPatterns(r.types)

\* C26: when the deletion of the keys of some patterns fails during
\* clearAllCacheExceptUser or clearSpecificCacheTypes, the function still
\* returns its report, the report lists those patterns as errors, and the
\* keys of every other pattern are gone: a key that matches a pattern of
\* the run is still there only if a pattern it matches is among the errors.
C26_ErrorsRecordedAndRunGoesOn ==
    (resp.kind = "clear" /\ resp.fn \in {"clearAllCacheExceptUser", "clearSpecificCacheTypes"})
    => \A p \in Range(reportPatterns(resp)) :
          \/ KeysMatching(store, p) = {}
          \/ p \in resp.metrics.errors

\* a run met an error on one pattern, which is in its report, and deleted
\* the keys of a pattern that comes after it
C26_Witness ==
    /\ resp.kind = "clear"
    /\ resp.fn \in {"clearAllCacheExceptUser", "clearSpecificCacheTypes"}
    /\ LET pats == reportPatterns(resp)
       IN  \E i, j \in 1..Len(pats) :
              /\ i < j
              /\ pats[i] \in resp.metrics.errors
              /\ KeysMatching(store, pats[i]) # {}
              /\ KeysMatching(resp.before, pats[j]) # {}
              /\ KeysMatching(store, pats[j]) = {}

----------------------------------------------------------------------------
(* Invalidation of the similar cache *)

\* C27: when the invalidation of the similar cache of article A has
\* answered, no store call of it having failed, there is no payload key
\* similar:A:*, no sidecar similar_meta:A and no member of the LRU set that
\* belongs to A, so that a request for A that begins now is a miss.
C27_InvalidationLeavesNothing ==
    (resp.kind = "simclear" /\ ~resp.error)
    => /\ KeysMatching(store, <<"similar", resp.article, "*">>) = {}
       /\ ~Has(store, simMetaKey(resp.article))
       /\ Has(store, simLruKey)
            => \A i \in 1..Len(store[simLruKey]) :
                  ~includes(store[simLruKey][i], resp.article)
       /\ \A page \in SimPages : ~simHit(store, resp.article, page[1], page[2])

----------------------------------------------------------------------------
(* Preference normalization (P10) *)

\* C28: every stored preference list is trimmed, lowercased, free of
\* duplicate entries and at most 10 entries long.
C28_StoredPreferencesNormalized ==
    \A u \in Users :
       Has(store, prefsKey(u)) =>
          LET p == store[prefsKey(u)]
          IN  /\ Len(p) <= PrefLimit
              /\ \A i \in 1..Len(p) : trim(p[i]) = p[i] /\ toLowerCase(p[i]) = p[i]
              /\ \A i, j \in 1..Len(p) : p[i] = p[j] => i = j

----------------------------------------------------------------------------
(* Pagination bounds *)

\* C29: a paginated response with totalCount > 0 has currentPage <=
\* totalPages, whatever page the client asked for.
C29_CurrentPageWithinTotal ==
    (resp.kind = "page" /\ resp.totalCount > 0)
    => resp.currentPage <= resp.totalPages

----------------------------------------------------------------------------
(* Trending *)

----------------------------------------------------------------------------
(* Search dispatch *)

\* C31: when a search request carries a topic and search filters, every
\* returned article is in the result of the search subquery and in the
\* result of the topic query, matches the filters and the topic itself, and
\* totalCount is the size of the intersection of the two results.
C31_TopicAndFiltersIntersect ==
    (resp.kind = "search" /\ resp.topic # ""
        /\ (resp.q # "" \/ resp.sentiment # "" \/ resp.source # ""))
    => /\ Range(resp.articles) \subseteq resp.searchIds \cap resp.topicIds
       /\ resp.totalCount = Cardinality(resp.searchIds \cap resp.topicIds)
       /\ \A i \in 1..Len(resp.articles) :
             LET a == resp.articles[i]
             IN  /\ a \in WordMatches(resp.topic)
                 /\ resp.q # "" => a \in WordMatches(resp.q)
                 /\ resp.sentiment # "" => Sentiment(a) = resp.sentiment
                 /\ resp.source # "" => Source(a) = resp.source

\* q=rocket with topic=Technology is answered with a2 alone, although the
\* search subquery found a1 as well and the topic query a3
C31_Witness ==
    /\ resp.kind = "search"
    /\ resp.q = "rocket"
    /\ resp.topic = "Technology"
    /\ resp.searchIds = {"a1", "a2"}
    /\ resp.topicIds = {"a2", "a3"}
    /\ resp.articles = <<"a2">>
    /\ resp.totalCount = 1

----------------------------------------------------------------------------
(* Engagement records *)

\* C32: after any sequence of view recordings each engagement list holds at
\* most 1000 records, newest first and without a gap, and a recording puts
\* its record at the head and drops only what lies beyond the 1000th place.
C32_EngagementKeepsNewest ==
    /\ [](\A a \in Articles :
             LET list == Records(store, <<"article_engagement", a>>)
             IN  /\ Len(list) <= EngagementKeep
                 /\ list # <<>> => list = [i \in 1..Len(list) |-> Head(list) + 1 - i])
    /\ [][(resp'.kind = "metrics" /\ ~resp'.failed)
          => LET old == Records(store, <<"article_engagement", resp'.article>>)
                 new == Records(store', <<"article_engagement", resp'.article>>)
             IN  /\ Len(new) = Min(Len(old) + 1, EngagementKeep)
                 /\ new[1] = nextRecord(old)
                 /\ Tail(new) = SubSeq(old, 1, Len(new) - 1)]_vars

\* the list of a1 is full and its oldest record has been trimmed away
C32_Witness ==
    LET list == Records(store, <<"article_engagement", "a1">>)
    IN  /\ Len(list) = EngagementKeep
        /\ list[Len(list)] > 1
        /\ resp.kind = "metrics"

----------------------------------------------------------------------------
(* Read history: marking twice *)

\* C33: markArticleAsRead(u, a) for an article already in the read list of
\* u leaves the list with the same article ids; only the timestamp of a
\* changes, to the time of the second call.
C33_SecondMarkKeepsList ==
    [][(resp'.kind = "read"
           /\ resp'.article \in getUserReadArticles(store, resp'.user))
       => /\ getUserReadArticles(store', resp'.user)
                = getUserReadArticles(store, resp'.user)
          /\ \A b \in getUserReadArticles(store, resp'.user) :
                readScores(store', resp'.user)[b] =
                    IF b = resp'.article THEN now
                    ELSE readScores(store, resp'.user)[b]]_vars

\* a2 has been marked a second time, an hour after the first, with a1 in
\* the list as well
C33_Witness ==
    /\ resp.kind = "read"
    /\ resp.article = "a2"
    /\ now = Hour
    /\ getUserReadArticles(store, resp.user) = {"a1", "a2"}
    /\ readScores(store, resp.user)["a1"] = 0
    /\ readScores(store, resp.user)["a2"] = Hour
    /\ ops >= 3

----------------------------------------------------------------------------
(* Nuclear confirmation (S6) *)

\* C34: a run of clearCache.js --nuclear that was not given the literal
\* token NUCLEAR ends with a non-zero exit code.
C34_NuclearWithoutTokenExitsNonZero ==
    (resp.kind \in {"cancelled", "clear"} /\ resp.entry = "clearCache.js"
        /\ resp.mode = "nuclear" /\ resp.token # "NUCLEAR")
    => resp.exit # 0

----------------------------------------------------------------------------
(* View tracking is cache *)

\* the two view-tracking patterns
ViewPatterns == {<<"article_user_views", "*">>, <<"user_article_views", "*">>}

----------------------------------------------------------------------------
(* The sidecar of the similar cache *)

\* C36: when a similar-articles cache hit is served for (articleId, limit,
\* offset), the sidecar its totalCount and cacheAge are read from was
\* written by the computation that wrote the payload returned: by a request
\* for the same limit and offset.
C36_HitSidecarOfSamePage ==
    (resp.kind = "similar" /\ resp.cached /\ resp.path = "hit")
    => resp.metaPage = <<resp.limit, resp.offset>>

----------------------------------------------------------------------------
(* Feed cache hit against the miss that wrote it *)

\* C37: with the preferences, the read history and the corpus of the user
\* as they were when a feed miss wrote its cache entry, a hit on that entry
\* returns the articles the miss returned, in the same order.
C37_HitEqualsPopulatingMiss ==
    (resp.kind = "feed" /\ resp.cached /\ resp.path = "hit_respond"
        /\ resp.under = getUserPreferences(store, resp.user)
        /\ resp.entry.viewed = {}
        /\ resp.entry.read = getUserReadArticles(store, resp.user))
    => resp.articles = resp.entry.missPage

----------------------------------------------------------------------------
(* Targeted invalidation touches one subject only *)

\* C38: a step of the invalidation of the similar cache for id A changes no
\* payload key and no sidecar of an article B # A, and removes no member of
\* the LRU set that is a cache key of an article B # A.
C38_InvalidationLeavesOthers ==
    [][(cli.pc \in {"keys", "meta", "lru"} /\ cli' # cli)
       => /\ \A k \in DOMAIN store :
                (Head(k) \in {"similar", "similar_meta"} /\ k[2] # cli.article)
                => (k \in DOMAIN store' /\ store'[k] = store[k])
          /\ Has(store, simLruKey) =>
                \A i \in 1..Len(store[simLruKey]) :
                    store[simLruKey][i][2] # cli.article
                    => \E j \in 1..Len(store'[simLruKey]) :
                          store'[simLruKey][j] = store[simLruKey][i]]_vars

\* C39: once no similar-articles request is in flight, the statistics hash
\* of every article has total_requests = cache_hits + cache_misses.
C39_StatsBalanced ==
    req.pc = "idle"
    => \A a \in SimArticles :
          simStats(store, a).total_requests
              = simStats(store, a).cache_hits + simStats(store, a).cache_misses

\* C40: between two resets of the counters at most MAX_CALLS_PER_MINUTE
\* summary calls go out on either summary key and at most as many
\* embedding calls.
C40_AtMostMaxCallsBetweenResets ==
    req.pc = "batch"
    => /\ resp.sinceReset.summary1 <= MAX_CALLS_PER_MINUTE
       /\ resp.sinceReset.summary2 <= MAX_CALLS_PER_MINUTE
       /\ resp.sinceReset.embedding <= MAX_CALLS_PER_MINUTE

====
